---- MODULE Spec2Model ----
(***************************************************************************)
(* A model of qimi: the NBD device allocator (internal/nbd), the mount     *)
(* manager (internal/mount), and the namespace and resolv.conf             *)
(* orchestration of the executor (internal/exec).                          *)
(*                                                                         *)
(* Strings that the code inspects character by character (paths, pid-file  *)
(* contents, nameserver literals) are tuples of one-character strings, so  *)
(* that HasPrefix, TrimSpace, Atoi and ParseIP are computed, not assumed.  *)
(***************************************************************************)
EXTENDS Integers, Sequences, FiniteSets, TLC

VARIABLES
    mounts,     \* the live mount table (/proc/mounts), oldest entry first
    umounts,    \* the umount commands issued by the last CleanupMountNamespace
    last,       \* the last operation that ran, with its arguments and result
    files,      \* the guest's resolv.conf, its symlink destination, the guest's
                \* /etc and the two backup slots of the mount point
    hostResolv, \* the bytes of the host's resolv.conf
    pc,         \* where the Execute call is: idle, dns, cmd, defer, ret
    call,       \* what the Execute call in progress has done so far
    rounds,     \* how many times backupAndSetupResolvConf has been called
    pidFiles,   \* per device slot, /sys/devices/virtual/block/nbdN/pid
    procs,      \* the process ids that have a /proc/<pid> directory
    found,      \* what the last FindFreeNBDDevice returned, until the host changes
    records,    \* the files of /tmp/qimi/metadata, by file name
    mpDir,      \* whether the mount-point directory exists
    guestTmp,   \* whether the guest's root directory has a tmp entry
    hostEntries, \* whether the mount-point directory itself, on the host's
                \* filesystem, has entries
    mlast,      \* the last Mount or Unmount call, with what it saw and returned
    store,      \* the image paths that have a record in /tmp/qimi/state.json
    disk,       \* what lsblk lists for the connected device, line by line
    picked,     \* the last GetPartitionDevice call: its inputs and its result
    inv,        \* the invocations that run side by side: where each one is
                \* and the device slot it holds
    table       \* the mount table of /tmp/qimi/state.json: its keys and the
                \* record stored under each

vars ==
    <<mounts, umounts, last, files, hostResolv, pc, call, rounds,
      pidFiles, procs, found, records, mpDir, guestTmp, hostEntries, mlast,
      store, disk, picked, inv, table>>

partVars == <<disk, picked>>

nbdVars == <<pidFiles, procs, found>>

mountVars == <<records, mpDir, guestTmp, hostEntries, mlast, store>>

(***************************************************************************)
(* Strings                                                                 *)
(***************************************************************************)
HasPrefix(s, p) == Len(s) >= Len(p) /\ SubSeq(s, 1, Len(p)) = p

HasSuffix(s, p) == Len(s) >= Len(p) /\ SubSeq(s, Len(s) - Len(p) + 1, Len(s)) = p

TrimPrefix(s, p) == IF HasPrefix(s, p) THEN SubSeq(s, Len(p) + 1, Len(s)) ELSE s

DigitVal(c) ==
    CASE c = "0" -> 0 [] c = "1" -> 1 [] c = "2" -> 2 [] c = "3" -> 3
      [] c = "4" -> 4 [] c = "5" -> 5 [] c = "6" -> 6 [] c = "7" -> 7
      [] c = "8" -> 8 [] c = "9" -> 9 [] OTHER -> -1

IsDigit(c) == DigitVal(c) >= 0

RECURSIVE DecimalValue(_)
DecimalValue(f) ==
    IF f = <<>> THEN 0
    ELSE 10 * DecimalValue(SubSeq(f, 1, Len(f) - 1)) + DigitVal(f[Len(f)])

S_slash == <<"/">>
S_root == <<"/">>
S_dev  == <<"/", "d", "e", "v">>
S_proc == <<"/", "p", "r", "o", "c">>
S_sys  == <<"/", "s", "y", "s">>
S_tmp  == <<"/", "t", "m", "p">>
S_mnt  == <<"/", "m", "n", "t">>

(***************************************************************************)
(* The namespace mount set                                                 *)
(***************************************************************************)
MountNamespaces ==
    << [source |-> "none",  target |-> S_proc, fstype |-> "proc"],
       [source |-> "none",  target |-> S_sys,  fstype |-> "sysfs"],
       [source |-> "/dev",  target |-> S_dev,  fstype |-> "rbind"],
       [source |-> "tmpfs", target |-> S_tmp,  fstype |-> "tmpfs"] >>

\* The mount table of the host before qimi runs: the host's own virtual
\* filesystems, which a misdirected unmount would take away.
HostMounts ==
    << [source |-> "proc",  target |-> S_proc],
       [source |-> "sysfs", target |-> S_sys],
       [source |-> "udev",  target |-> S_dev],
       [source |-> "tmpfs", target |-> S_tmp] >>

\* isMounted: some line of the mount table has the path as its mount point.
isMounted(tbl, path) == \E i \in 1..Len(tbl) : tbl[i].target = path

\* The index of the topmost (latest) mount on a path; 0 if there is none.
TopMount(tbl, path) ==
    IF isMounted(tbl, path)
    THEN CHOOSE i \in 1..Len(tbl) :
            /\ tbl[i].target = path
            /\ \A j \in (i + 1)..Len(tbl) : tbl[j].target # path
    ELSE 0

RemoveAt(s, i) == SubSeq(s, 1, i - 1) \o SubSeq(s, i + 1, Len(s))

\* umount(8) on a path: takes the topmost mount on it out of the table.
UmountPath(tbl, path) ==
    IF isMounted(tbl, path) THEN RemoveAt(tbl, TopMount(tbl, path)) ELSE tbl

(***************************************************************************)
(* FindFreeNBDDevice and isNBDFree                                         *)
(***************************************************************************)
\* The fixed pool: /dev/nbd0 .. /dev/nbd15.
NumSlots == 16

SlotIds == 0..(NumSlots - 1)

DigitChar(d) ==
    CASE d = 0 -> "0" [] d = 1 -> "1" [] d = 2 -> "2" [] d = 3 -> "3"
      [] d = 4 -> "4" [] d = 5 -> "5" [] d = 6 -> "6" [] d = 7 -> "7"
      [] d = 8 -> "8" [] d = 9 -> "9"

\* fmt.Sprintf("%d", n) for n >= 0
RECURSIVE Itoa(_)
Itoa(n) == IF n < 10 THEN <<DigitChar(n)>> ELSE Itoa(n \div 10) \o <<DigitChar(n % 10)>>

S_nbd == <<"n", "b", "d">>

\* fmt.Sprintf("/dev/nbd%d", i)
NbdPath(i) == S_dev \o S_slash \o S_nbd \o Itoa(i)

IsSpace(c) == c \in {" ", "\t", "\n", "\r"}

\* strings.TrimSpace
RECURSIVE TrimSpace(_)
TrimSpace(s) ==
    IF s = <<>> THEN s
    ELSE IF IsSpace(s[1]) THEN TrimSpace(Tail(s))
    ELSE IF IsSpace(s[Len(s)]) THEN TrimSpace(SubSeq(s, 1, Len(s) - 1))
    ELSE s

\* strconv.Atoi: an optional sign, then one or more decimal digits.
Atoi(s) ==
    LET signed == s # <<>> /\ s[1] \in {"+", "-"}
        digits == IF signed THEN Tail(s) ELSE s
    IN IF digits = <<>> \/ \E i \in 1..Len(digits) : ~IsDigit(digits[i])
       THEN [ok |-> FALSE, val |-> 0]
       ELSE [ok |-> TRUE,
             val |-> IF signed /\ s[1] = "-" THEN 0 - DecimalValue(digits)
                     ELSE DecimalValue(digits)]

\* A pid file: absent, present but unreadable, or present with its bytes.
NoMarker == [kind |-> "absent", data |-> <<>>]
Unreadable == [kind |-> "unreadable", data |-> <<>>]
Marker(bytes) == [kind |-> "data", data |-> bytes]

\* A plausible slip: a marker that does not parse counts as free.
isNBDFreeUnparsedFree(marker, running) ==
    \/ marker.kind = "absent"
    \/ /\ marker.kind = "data"
       /\ LET pidStr == TrimSpace(marker.data)
          IN \/ pidStr = <<>>
             \/ ~Atoi(pidStr).ok
             \/ Atoi(pidStr).val \notin running

\* isNBDFree, on the slot's pid file and the running processes.
isNBDFree(marker, running) ==
    IF marker.kind = "absent" THEN TRUE
    ELSE IF marker.kind = "unreadable" THEN FALSE
    ELSE LET pidStr == TrimSpace(marker.data)
         IN IF pidStr = <<>> THEN TRUE
            ELSE IF ~Atoi(pidStr).ok THEN FALSE
            ELSE Atoi(pidStr).val \notin running

NoDevice == [valid |-> FALSE, err |-> TRUE, dev |-> <<>>]

\* The loop of FindFreeNBDDevice from slot i up to, not including, slot n.
RECURSIVE ScanSlots(_, _, _, _)
ScanSlots(i, n, pf, running) ==
    IF i >= n THEN NoDevice
    ELSE IF isNBDFree(pf[i], running)
    THEN [valid |-> FALSE, err |-> FALSE, dev |-> NbdPath(i)]
    ELSE ScanSlots(i + 1, n, pf, running)

\* A plausible slip: the scan stops one slot short of the pool.
FindFreeNBDDeviceShortScan(pf, running) == ScanSlots(0, NumSlots - 1, pf, running)

\* FindFreeNBDDevice: the first slot, in index order, that isNBDFree accepts.
FindFreeNBDDevice(pf, running) == ScanSlots(0, NumSlots, pf, running)

(***************************************************************************)
(* Executor.setupMountNamespace and Executor.CleanupMountNamespace         *)
(***************************************************************************)
\* /tmp/qimi/mounts, the directory the mount manager puts mount points in.
S_mountDir ==
    S_tmp \o <<"/", "q", "i", "m", "i">> \o <<"/", "m", "o", "u", "n", "t", "s">>

S_dotMount == <<".", "m", "o", "u", "n", "t">>

\* The mount points of the images a.img and b.img, and one under /mnt.
MP_a == S_mountDir \o <<"/", "a">> \o S_dotMount
MP_b == S_mountDir \o <<"/", "b">> \o S_dotMount
MP_mnt == S_mnt \o <<"/", "m">>

\* Mount points Execute is run on.
ExecMountPoints == {MP_a}

\* Strings CleanupMountNamespace is called with.
CleanupArgs ==
    ExecMountPoints \cup
    { MP_mnt, <<>>, S_root, S_dev, S_proc, S_sys, S_tmp, S_mnt,
      S_tmp \o S_slash, MP_a \o S_slash,
      <<"/", "h", "o", "m", "e">>, <<"/", "t", "m", "p", "x", "/", "m">>,
      <<"t", "m", "p", "/", "m">>, <<"/", "/", "t", "m", "p", "/", "m">>,
      <<"/", "t", "m", "p", "/", ".", ".">> }

\* One pass of the setup loop, entries i..4; o[i] is what happens to entry i.
RECURSIVE SetupLoop(_, _, _, _)
SetupLoop(mountPoint, i, tbl, o) ==
    IF i > Len(MountNamespaces) THEN tbl
    ELSE LET m == MountNamespaces[i]
             target == mountPoint \o m.target
         IN IF o[i] = "mkdirfail" THEN SetupLoop(mountPoint, i + 1, tbl, o)
            ELSE IF o[i] = "mountfail" THEN SetupLoop(mountPoint, i + 1, tbl, o)
            ELSE SetupLoop(mountPoint, i + 1,
                           Append(tbl, [source |-> m.source, target |-> target]), o)

setupMountNamespace(mountPoint, tbl, o) == SetupLoop(mountPoint, 1, tbl, o)

\* The first check of CleanupMountNamespace: the five forbidden strings.
ForbiddenMountPoint(mountPoint) ==
    \/ mountPoint = <<>>
    \/ mountPoint = S_root
    \/ mountPoint = S_dev
    \/ mountPoint = S_proc
    \/ mountPoint = S_sys

\* The second check: the allow-listed prefixes.
AllowListed(mountPoint) ==
    \/ HasPrefix(mountPoint, S_tmp \o S_slash)
    \/ HasPrefix(mountPoint, S_mnt \o S_slash)

SafetyRejectedNoAllowList(mountPoint) == ForbiddenMountPoint(mountPoint)

SafetyRejected(mountPoint) ==
    ForbiddenMountPoint(mountPoint) \/ ~AllowListed(mountPoint)

SlashTerminated(mountPoint) ==
    IF HasSuffix(mountPoint, S_slash) THEN mountPoint ELSE mountPoint \o S_slash

\* One round of the teardown loop that gives up after the standard umount.
CleanupEntryNoLazy(mountPoint, i, st, o) ==
    LET target == mountPoint \o TrimPrefix(MountNamespaces[i].target, S_slash)
        std  == [target |-> target, lazy |-> FALSE]
    IN IF ~HasPrefix(target, mountPoint) THEN st
       ELSE IF ~isMounted(st.mounts, target) THEN st
       ELSE IF o[i] = "ok"
         THEN [mounts |-> UmountPath(st.mounts, target),
               log |-> Append(st.log, std)]
       ELSE [mounts |-> st.mounts, log |-> Append(st.log, std)]

\* One round of the teardown loop, for entry i, on the slash-terminated mount
\* point; st holds the mount table and the umount commands issued so far.
CleanupEntry(mountPoint, i, st, o) ==
    LET target == mountPoint \o TrimPrefix(MountNamespaces[i].target, S_slash)
        std  == [target |-> target, lazy |-> FALSE]
        lazy == [target |-> target, lazy |-> TRUE]
    IN IF ~HasPrefix(target, mountPoint) THEN st
       ELSE IF ~isMounted(st.mounts, target) THEN st
       ELSE IF o[i] = "ok"
         THEN [mounts |-> UmountPath(st.mounts, target),
               log |-> Append(st.log, std)]
       ELSE IF o[i] = "lazy"
         THEN [mounts |-> UmountPath(st.mounts, target),
               log |-> st.log \o <<std, lazy>>]
       ELSE [mounts |-> st.mounts, log |-> st.log \o <<std, lazy>>]

\* The teardown loop run from the first entry to the last.
RECURSIVE CleanupLoopForward(_, _, _, _)
CleanupLoopForward(mountPoint, i, st, o) ==
    IF i = 0 THEN st
    ELSE CleanupLoopForward(mountPoint, i - 1,
             CleanupEntry(mountPoint, Len(MountNamespaces) + 1 - i, st, o), o)

\* The teardown loop, entries i down to 1.
RECURSIVE CleanupLoop(_, _, _, _)
CleanupLoop(mountPoint, i, st, o) ==
    IF i = 0 THEN st
    ELSE CleanupLoop(mountPoint, i - 1, CleanupEntry(mountPoint, i, st, o), o)

\* CleanupMountNamespace without its two validation steps.
CleanupMountNamespaceNoValidation(mountPoint, tbl, o) ==
    LET st == CleanupLoop(SlashTerminated(mountPoint), Len(MountNamespaces),
                          [mounts |-> tbl, log |-> <<>>], o)
    IN [err |-> FALSE, mounts |-> st.mounts, log |-> st.log]

\* CleanupMountNamespace: the error, the mount table and the umount commands.
CleanupMountNamespace(mountPoint, tbl, o) ==
    IF SafetyRejected(mountPoint)
    THEN [err |-> TRUE, mounts |-> tbl, log |-> <<>>]
    ELSE LET st == CleanupLoop(SlashTerminated(mountPoint), Len(MountNamespaces),
                               [mounts |-> tbl, log |-> <<>>], o)
         IN [err |-> FALSE, mounts |-> st.mounts, log |-> st.log]

(***************************************************************************)
(* net.ParseIP on dotted-decimal literals (the nameserver strings used     *)
(* here hold no colon, so the IPv6 branch is never taken)                  *)
(***************************************************************************)
\* The fields of s between the separators sep.
RECURSIVE SplitOn(_, _)
SplitOn(s, sep) ==
    IF \A i \in 1..Len(s) : s[i] # sep THEN <<s>>
    ELSE LET k == CHOOSE i \in 1..Len(s) :
                      s[i] = sep /\ \A j \in 1..(i - 1) : s[j] # sep
         IN <<SubSeq(s, 1, k - 1)>> \o SplitOn(SubSeq(s, k + 1, Len(s)), sep)

IsOctet(f) ==
    /\ Len(f) \in 1..3
    /\ \A i \in 1..Len(f) : IsDigit(f[i])
    /\ (Len(f) > 1 => f[1] # "0")
    /\ DecimalValue(f) <= 255

\* TRUE when net.ParseIP returns an address, FALSE when it returns nil.
ParseIP(s) ==
    LET fields == SplitOn(s, ".")
    IN Len(fields) = 4 /\ \A i \in 1..4 : IsOctet(fields[i])

(***************************************************************************)
(* The guest's resolv.conf and the two backup slots                        *)
(***************************************************************************)
Absent == [kind |-> "absent", data |-> <<>>]
File(bytes) == [kind |-> "file", data |-> bytes]
Symlink(dest) == [kind |-> "symlink", data |-> dest]

NoSlot == [exists |-> FALSE, data |-> <<>>]
Slot(bytes) == [exists |-> TRUE, data |-> bytes]

\* os.Stat on the guest's resolv.conf follows a symlink: it succeeds on a
\* regular file and on a symlink whose destination exists.
StatTarget(fs) ==
    \/ fs.guest.kind = "file"
    \/ fs.guest.kind = "symlink" /\ fs.dest.exists

\* os.WriteFile on the guest's resolv.conf opens the path with O_CREATE and
\* O_TRUNC and without O_NOFOLLOW: through a symlink it writes the destination.
WriteTarget(fs, bytes) ==
    IF fs.guest.kind = "symlink"
    THEN [fs EXCEPT !.dest = Slot(bytes)]
    ELSE [fs EXCEPT !.guest = File(bytes)]

\* os.Remove on the guest's resolv.conf removes the file or the link itself.
RemoveTarget(fs) == [fs EXCEPT !.guest = Absent]

Fail(fs) == [fs EXCEPT !.ret = "err"]

\* Lines 148-165: the backup directory and the guest's /etc.
SetupDirs(fs, fail) ==
    IF fail = "mkdirBackupDir" THEN Fail(fs)
    ELSE IF ~fs.etc
         THEN IF fail = "mkdirEtc" THEN Fail(fs) ELSE [fs EXCEPT !.etc = TRUE]
         ELSE fs

\* Lines 167-214: the first-time backup, taken when the content-backup slot
\* does not exist.
BackupOriginal(fs, fail) ==
    IF fs.ret # "run" THEN fs
    ELSE IF fs.backup.exists \/ fail = "statBackup" THEN fs
    ELSE IF fail = "lstat" THEN Fail(fs)
    ELSE IF fs.guest.kind = "symlink"
         THEN IF fail \in {"readlink", "writeSymlinkBackup"} THEN Fail(fs)
              ELSE [fs EXCEPT !.sym = Slot(fs.guest.data), !.wrote = TRUE]
    ELSE IF fs.guest.kind = "file"
         THEN IF fail = "readFile" THEN fs
              ELSE IF fail = "writeBackup" THEN Fail(fs)
              ELSE [fs EXCEPT !.backup = Slot(fs.guest.data), !.wrote = TRUE]
    ELSE IF fail = "writeMarker" THEN Fail(fs)
         ELSE [fs EXCEPT !.backup = Slot(<<>>), !.wrote = TRUE]

S_nameserver == <<"n", "a", "m", "e", "s", "e", "r", "v", "e", "r", " ">>
S_newline == <<"\n">>

\* strings.Join(resolvLines, "\n") + "\n"
RECURSIVE JoinLines(_)
JoinLines(ns) ==
    IF ns = <<>> THEN <<>>
    ELSE IF Len(ns) = 1 THEN S_nameserver \o ns[1]
    ELSE S_nameserver \o ns[1] \o S_newline \o JoinLines(Tail(ns))

\* A plausible slip: invalid entries are dropped instead of failing the call.
NameserverContentSkipInvalid(nameservers) ==
    [err |-> FALSE,
     bytes |-> JoinLines(SelectSeq(nameservers, ParseIP)) \o S_newline]

\* Lines 218-238: validate every supplied nameserver, then generate the lines.
NameserverContent(nameservers) ==
    IF \E i \in 1..Len(nameservers) : ~ParseIP(nameservers[i])
    THEN [err |-> TRUE, bytes |-> <<>>]
    ELSE [err |-> FALSE, bytes |-> JoinLines(nameservers) \o S_newline]

\* Lines 216-257: the content to write.
ChooseContent(fs, host, nameservers, fail) ==
    IF fs.ret # "run" THEN fs
    ELSE IF Len(nameservers) > 0
         THEN LET c == NameserverContent(nameservers)
              IN IF c.err THEN Fail(fs) ELSE [fs EXCEPT !.content = c.bytes]
    ELSE IF fail = "readHost" THEN Fail(fs)
    ELSE [fs EXCEPT !.content = host]

\* Lines 259-278: remove what os.Stat finds at the path, then write.
WritePhase(fs, fail) ==
    IF fs.ret # "run" THEN fs
    ELSE IF StatTarget(fs) /\ fail = "removeTarget" THEN Fail(fs)
    ELSE LET cleared == IF StatTarget(fs) THEN RemoveTarget(fs) ELSE fs
         IN IF fail = "writeTarget" THEN Fail(cleared)
            ELSE [WriteTarget(cleared, fs.content) EXCEPT !.ret = "ok"]

\* backupAndSetupResolvConf on the files fs = [guest, dest, etc, backup, sym]:
\* the files afterwards, with ret = "ok" or "err" and wrote = TRUE when the
\* call wrote a backup slot.
backupAndSetupResolvConf(fs, host, nameservers, fail) ==
    LET s0 == [guest |-> fs.guest, dest |-> fs.dest, etc |-> fs.etc,
               backup |-> fs.backup, sym |-> fs.sym,
               ret |-> "run", content |-> <<>>, wrote |-> FALSE]
        s1 == SetupDirs(s0, fail)
        s2 == BackupOriginal(s1, fail)
        s3 == ChooseContent(s2, host, nameservers, fail)
    IN WritePhase(s3, fail)

Returned(fs, ret) ==
    [guest |-> fs.guest, dest |-> fs.dest, etc |-> fs.etc,
     backup |-> fs.backup, sym |-> fs.sym, ret |-> ret]

\* A restore that looks at the content-backup slot first.
restoreResolvConfContentFirst(fs, fail) ==
    LET removed == IF fail = "removeTarget" THEN fs ELSE RemoveTarget(fs)
    IN IF fs.backup.exists /\ Len(fs.backup.data) > 0 /\ fail = "none"
       THEN Returned(WriteTarget(fs, fs.backup.data), "ok")
       ELSE IF fs.sym.exists /\ Len(fs.sym.data) > 0 /\ fail # "readSymlinkBackup"
       THEN IF fail = "symlink" \/ removed.guest.kind # "absent"
            THEN Returned(removed, "err")
            ELSE Returned([removed EXCEPT !.guest = Symlink(fs.sym.data)], "ok")
       ELSE Returned(removed, "ok")

\* restoreResolvConf: the files afterwards, with ret = "ok" or "err". The
\* result of os.Remove is ignored (lines 292, 307, 314).
restoreResolvConf(fs, fail) ==
    LET removed == IF fail = "removeTarget" THEN fs ELSE RemoveTarget(fs)
    IN IF fs.sym.exists /\ Len(fs.sym.data) > 0 /\ fail # "readSymlinkBackup"
       THEN IF fail = "symlink" \/ removed.guest.kind # "absent"
            THEN Returned(removed, "err")
            ELSE Returned([removed EXCEPT !.guest = Symlink(fs.sym.data)], "ok")
       ELSE IF ~fs.backup.exists \/ fail = "readBackup"
            THEN Returned(removed, "ok")
       ELSE IF Len(fs.backup.data) = 0
            THEN Returned(removed, "ok")
       ELSE IF fail = "writeTarget"
            THEN Returned(fs, "err")
            ELSE Returned(WriteTarget(fs, fs.backup.data), "ok")

\* CleanupBackupFiles: both slots removed.
CleanupBackupFiles(fs) == [fs EXCEPT !.backup = NoSlot, !.sym = NoSlot]

(***************************************************************************)
(* The mount manager: MountWithPartition, mountQemuImage, Unmount,         *)
(* disconnectNBD, on a world w of mount table, device pool, metadata       *)
(* files, mount-point directory and guest filesystem                       *)
(***************************************************************************)
\* A value computed once and handed on: F applied to the value of v.
Then(v, F(_)) == CHOOSE r \in {F(x) : x \in {v}} : TRUE

\* filepath.Base: the last element of a path, trailing slashes dropped.
RECURSIVE Base(_)
Base(p) ==
    IF p = <<>> THEN <<".">>
    ELSE IF p = S_slash THEN S_slash
    ELSE IF p[Len(p)] = "/" THEN Base(SubSeq(p, 1, Len(p) - 1))
    ELSE LET cuts == {i \in 1..Len(p) : p[i] = "/"}
             cut == IF cuts = {} THEN 0
                    ELSE CHOOSE i \in cuts : \A j \in cuts : j <= i
         IN SubSeq(p, cut + 1, Len(p))

\* filepath.Join of a clean directory and a clean element.
Join(dir, elem) == dir \o S_slash \o elem

S_dotNbd == <<".", "n", "b", "d">>

\* The metadata file of a mount point: Base(mountPoint) + ".nbd".
RecordName(path) == Base(path) \o S_dotNbd

\* The metadata files that are ever written: the one of the mount point.
RecordNames == {RecordName(MP_a)}

\* The slot a device path names; -1 for a path that names none.
SlotOf(dev) ==
    IF \E i \in SlotIds : NbdPath(i) = dev
    THEN CHOOSE i \in SlotIds : NbdPath(i) = dev
    ELSE -1

\* The process id of the qemu-nbd that serves a slot.
QemuPid(i) == 100 + i

\* qemu-nbd --connect: the slot's pid file names the serving process.
ConnectImage(w, i) ==
    [w EXCEPT !.pidFiles[i] = Marker(Itoa(QemuPid(i)) \o <<"\n">>),
              !.procs = @ \cup {QemuPid(i)}]

\* qemu-nbd --disconnect: the serving process exits, the pid file goes.
DisconnectDevice(w, dev) ==
    IF SlotOf(dev) = -1 THEN w
    ELSE [w EXCEPT !.pidFiles[SlotOf(dev)] = NoMarker,
                   !.procs = @ \ {QemuPid(SlotOf(dev))}]

\* disconnectNBD: reads the metadata file named after its argument; without
\* one it reports a mismatch and disconnects nothing.
disconnectNBD(w, mountPoint) ==
    Then(RecordName(mountPoint), LAMBDA name :
    Then(IF name \in DOMAIN w.records THEN w.records[name] ELSE NoSlot, LAMBDA rec :
        IF ~rec.exists
        THEN [w |-> w, ret |-> "mismatch"]
        ELSE [w |-> [DisconnectDevice(w, TrimSpace(rec.data))
                       EXCEPT !.records[name] = NoSlot],
              ret |-> "ok"]))

\* The entries of the guest's root directory.
GuestEntries(w) ==
    (IF w.guestTmp THEN {"tmp"} ELSE {}) \cup (IF w.files.etc THEN {"etc"} ELSE {})

\* os.ReadDir of the mount point: the guest's root while a filesystem is
\* mounted on it, else the entries of the directory itself.
ReadDir(w, mountPoint) ==
    IF isMounted(w.mounts, mountPoint) THEN GuestEntries(w)
    ELSE IF w.host THEN {"etc"} ELSE {}

WipedFiles ==
    [guest |-> Absent, dest |-> NoSlot, etc |-> FALSE, backup |-> NoSlot,
     sym |-> NoSlot]

\* os.RemoveAll of the mount point: removes everything below it and then the
\* directory; below a mounted filesystem that is the guest's files, and the
\* directory itself is busy. rmdir also fails with EBUSY (w.busy) on a
\* directory that is still a mount point in another mount namespace.
RemoveAllFails(w, mountPoint) ==
    w.dir /\ (isMounted(w.mounts, mountPoint) \/ w.busy)

RemoveAll(w, mountPoint) ==
    IF ~w.dir THEN w
    ELSE IF isMounted(w.mounts, mountPoint)
    THEN [w EXCEPT !.files = WipedFiles, !.guestTmp = FALSE]
    ELSE IF w.busy THEN [w EXCEPT !.host = FALSE]
    ELSE [w EXCEPT !.dir = FALSE, !.host = FALSE]

\* umount(8) refuses a mount point that has other mounts below it.
MountsBelow(tbl, mountPoint) ==
    \E i \in 1..Len(tbl) : HasPrefix(tbl[i].target, mountPoint \o S_slash)

\* Unmount, lines 226-228: umount with its result ignored.
UnmountAttempt(w, mountPoint, o) ==
    IF o = "ok" /\ ~MountsBelow(w.mounts, mountPoint)
    THEN [w EXCEPT !.mounts = UmountPath(@, mountPoint)]
    ELSE w

\* The directory handling of Unmount, lines 237-245, from the world w3 that
\* umount, disconnectNBD and CleanupBackupFiles leave.
UnmountRemoveAlways(w3, mountPoint) ==
    IF ~w3.dir THEN [w |-> w3, ret |-> "ok"]
    ELSE [w |-> RemoveAll(w3, mountPoint),
          ret |-> IF RemoveAllFails(w3, mountPoint) THEN "removeErr" ELSE "ok"]

UnmountRemoveIfEmpty(w3, mountPoint) ==
    IF ~w3.dir THEN [w |-> w3, ret |-> "readDirErr"]
    ELSE IF ReadDir(w3, mountPoint) = {}
    THEN [w |-> RemoveAll(w3, mountPoint),
          ret |-> IF RemoveAllFails(w3, mountPoint) THEN "removeErr" ELSE "ok"]
    ELSE [w |-> w3, ret |-> "ok"]

\* Unmount: the world afterwards and what is returned.
Unmount(w, mountPoint, o) ==
    Then(UnmountAttempt(w, mountPoint, o), LAMBDA w1 :
    Then(disconnectNBD(w1, mountPoint).w, LAMBDA w2 :
    Then([w2 EXCEPT !.files = CleanupBackupFiles(@)], LAMBDA w3 :
        UnmountRemoveIfEmpty(w3, mountPoint))))

\* mountQemuImage from the device d, slot i, that FindFreeNBDDevice gave: the
\* world afterwards, what is returned, and the slot the image was connected
\* to (-1 when it never was).
mountOnDevice(w, mountPoint, fail, o, d, i) ==
    LET connected == ConnectImage(w, i)
        mounted ==
            [ConnectImage(w, i) EXCEPT
                !.mounts = Append(@, [source |-> "partition", target |-> mountPoint])]
    IN IF d.err THEN [w |-> w, ret |-> "err", slot |-> -1]
       ELSE IF fail = "connect"
       THEN [w |-> disconnectNBD(w, d.dev).w, ret |-> "err", slot |-> -1]
       ELSE IF fail \in {"probe", "partition", "mount"}
       THEN [w |-> disconnectNBD(connected, d.dev).w, ret |-> "err", slot |-> i]
       ELSE IF fail = "writeRecord"
       THEN [w |-> Unmount(mounted, mountPoint, o).w, ret |-> "err", slot |-> i]
       ELSE [w |-> [mounted EXCEPT !.records[RecordName(mountPoint)] = Slot(d.dev)],
             ret |-> "ok", slot |-> i]

mountQemuImage(w, mountPoint, fail, o) ==
    Then(FindFreeNBDDevice(w.pidFiles, w.procs), LAMBDA d :
    Then(SlotOf(d.dev), LAMBDA i : mountOnDevice(w, mountPoint, fail, o, d, i)))

\* A mount point made of the image's base name alone, in the root directory.
MountPointOfBaseOnly(imagePath) == S_slash \o Base(imagePath)

\* The mount point of an image: mountDir/Base(image).mount.
MountPointOf(imagePath) == Join(S_mountDir, Base(imagePath) \o S_dotMount)

MkdirAll(w) == [w EXCEPT !.dir = TRUE]

\* MountWithPartition: the world afterwards, what is returned, the slot.
MountWithPartition(w, imagePath, fail, o) ==
    IF fail \in {"stat", "mkdir"} THEN [w |-> w, ret |-> "err", slot |-> -1]
    ELSE Then(MountPointOf(imagePath), LAMBDA mountPoint :
         Then(mountQemuImage(MkdirAll(w), mountPoint, fail, o), LAMBDA r :
             IF r.ret = "err"
             THEN [w |-> RemoveAll(r.w, mountPoint), ret |-> "err", slot |-> r.slot]
             ELSE r))

SetupOutcomes == [1..Len(MountNamespaces) -> {"ok", "mkdirfail", "mountfail"}]
UmountOutcomes == [1..Len(MountNamespaces) -> {"ok", "lazy", "fail"}]

\* The mount table holds at most this many entries.
MaxMounts == 8

V_1234 == <<"1", ".", "2", ".", "3", ".", "4">>
X_256  == <<"2", "5", "6", ".", "0", ".", "0", ".", "1">>
NsStrings == {V_1234, X_256}

\* The nameserver lists given: none, one entry, two entries in every order.
NsLists ==
    {<<>>, <<V_1234>>, <<X_256>>, <<V_1234, V_1234>>, <<V_1234, X_256>>,
     <<X_256, V_1234>>, <<X_256, X_256>>}

HostContents == {<<"h">>, <<"g">>}

\* The link target a guest's resolv.conf may be a symlink to.
L_stub == <<"/", "r", "u", "n", "/", "r">>

\* What the guest's resolv.conf is when the image is mounted.
Originals == {Absent, File(<<>>), File(<<"o">>), Symlink(L_stub)}

\* What a guest command, or anyone on the host while the image is mounted,
\* may turn the guest's resolv.conf into.
GuestEdits == {Absent, File(<<"w">>), Symlink(L_stub)}

\* The command leaves the guest's resolv.conf alone.
NoEdit == [kind |-> "none", data |-> <<>>]

DnsFails ==
    {"none", "mkdirBackupDir", "mkdirEtc", "statBackup", "lstat", "readlink",
     "writeSymlinkBackup", "readFile", "writeBackup", "writeMarker", "readHost",
     "removeTarget", "writeTarget"}

RestoreFails ==
    {"none", "readSymlinkBackup", "symlink", "readBackup", "removeTarget",
     "writeTarget"}

Files(r) ==
    [guest |-> r.guest, dest |-> r.dest, etc |-> r.etc,
     backup |-> r.backup, sym |-> r.sym]

\* What is recorded of an Execute call in progress: the nameserver list, the
\* guest's resolv.conf and its symlink destination when the DNS setup began,
\* whether a backup slot existed then and whether the setup wrote one, whether
\* a system call of the setup or of the restore failed, and the command's
\* course. phase is "setup" after backupAndSetupResolvConf and "restored"
\* after the restoreResolvConf that follows it.
NoCall ==
    [phase |-> "none", ns |-> <<>>, dnsErr |-> FALSE, orig |-> Absent,
     origDest |-> NoSlot, recorded |-> FALSE, slotWritten |-> FALSE,
     ioFailed |-> FALSE, started |-> FALSE, result |-> "none",
     edited |-> FALSE, restores |-> 0]

\* The invocations that may overlap in time.
Invocations == {1, 2}

\* A mount table without records.
EmptyTable == [k \in {} |-> k]

\* An invocation that has not started.
NotStarted == [pc |-> "idle", dev |-> <<>>]

InitNs ==
    /\ mounts = HostMounts
    /\ umounts = <<>>
    /\ last = [op |-> "none"]
    /\ inv = [p \in Invocations |-> NotStarted]
    /\ table = EmptyTable

InitExec ==
    /\ files \in {f \in [guest : Originals, dest : {NoSlot, Slot(<<"d">>)},
                      etc : BOOLEAN, backup : {NoSlot}, sym : {NoSlot}] :
                 ~f.etc => f.guest = Absent}
    /\ hostResolv = <<"h">>
    /\ pc = "idle"
    /\ call = NoCall
    /\ rounds = 0

\* The executor is idle on a guest whose resolv.conf is a non-empty file.
InitExecIdle ==
    /\ files = [guest |-> File(<<"o">>), dest |-> NoSlot, etc |-> TRUE,
             backup |-> NoSlot, sym |-> NoSlot]
    /\ hostResolv = <<"h">>
    /\ pc = "idle"
    /\ call = NoCall
    /\ rounds = 0

Pids == {7, 9}

S_pid7 == <<"7", "\n">>
S_pid9 == <<"9", "\n">>

\* The pid files a slot is given here: absent, unreadable, empty, blank, the
\* pid of process 7 or 9, or text that is no number.
Markers ==
    {NoMarker, Unreadable, Marker(<<>>), Marker(<<"\n">>), Marker(S_pid7),
     Marker(S_pid9), Marker(<<"7", "x">>)}

\* The slots whose pid file is rewritten here: the first, one in the middle,
\* the last.
TouchedSlots == {0, 7, NumSlots - 1}

NoResult == [valid |-> FALSE, err |-> FALSE, dev |-> <<>>]

\* No slot is connected and no process of interest runs.
InitNbdIdle ==
    /\ pidFiles = [i \in SlotIds |-> NoMarker]
    /\ procs = {}
    /\ found = NoResult

\* The first k slots are held by the running process 7.
InitNbd ==
    /\ \E k \in 0..NumSlots :
          pidFiles = [i \in SlotIds |-> IF i < k THEN Marker(S_pid7) ELSE NoMarker]
    /\ procs = {7}
    /\ found = NoResult

(***************************************************************************)
(* CheckSystemDependencies and the root command's PersistentPreRunE        *)
(***************************************************************************)
\* strings.Contains
Contains(str, sub) ==
    \E i \in 0..(Len(str) - Len(sub)) : SubSeq(str, i + 1, i + Len(sub)) = sub

\* What the dependency check finds on the host: /proc/modules (readable or
\* not, and its bytes), whether modprobe nbd succeeds, and whether qemu-nbd
\* and partprobe are on the PATH.
DepEnv(readable, data, modprobe, qemuNbd, partprobe) ==
    [readable |-> readable, data |-> data, modprobe |-> modprobe,
     qemuNbd |-> qemuNbd, partprobe |-> partprobe]

M_nbd  == <<"n", "b", "d", " ", "1", "\n">>
M_loop == <<"l", "o", "o", "p", " ", "1", "\n">>
DepsPresent == DepEnv(TRUE, M_nbd, TRUE, TRUE, TRUE)

\* checkNBDModule: TRUE when it returns an error.
checkNBDModule(env) ==
    IF ~env.readable THEN TRUE
    ELSE IF ~Contains(env.data, <<"n", "b", "d", " ">>) THEN ~env.modprobe
    ELSE FALSE

\* The check with the order of its lookups exchanged.
CheckSystemDependenciesPartprobeFirst(env) ==
    IF ~env.partprobe THEN "partprobe"
    ELSE IF ~env.qemuNbd THEN "qemu-nbd"
    ELSE IF checkNBDModule(env) THEN "nbd module"
    ELSE "none"

\* CheckSystemDependencies: what the error names, "none" without an error.
CheckSystemDependencies(env) ==
    IF checkNBDModule(env) THEN "nbd module"
    ELSE IF ~env.qemuNbd THEN "qemu-nbd"
    ELSE IF ~env.partprobe THEN "partprobe"
    ELSE "none"

\* A logger whose fatal level only writes the message.
ExitsNever(level) == FALSE

\* Logger.log: writing at the fatal level ends the process.
Exits(level) == level = "fatal"

\* PersistentPreRunE: the process ends before the command's Run when the
\* dependency check fails.
PersistentPreRunE(dep) ==
    IF dep # "none" /\ Exits("fatal") THEN "exit" ELSE "run"

NoOp ==
    [op |-> "none", ret |-> "none", slot |-> -1, created |-> FALSE,
     fresh |-> FALSE, hadRecord |-> FALSE, hadDir |-> FALSE, nonEmpty |-> FALSE,
     files |-> WipedFiles, tmp |-> FALSE, temp |-> FALSE,
     dep |-> "none", env |-> DepsPresent, image |-> <<>>]

\* Nothing is mounted by qimi: no metadata file, no mount-point directory.
InitMount ==
    /\ records = [n \in RecordNames |-> NoSlot]
    /\ mpDir = FALSE
    /\ guestTmp = TRUE
    /\ hostEntries = FALSE
    /\ mlast = NoOp
    /\ store = {}

\* No device has been probed and GetPartitionDevice has not been called.
NoPick == [num |-> -1, lsblkFails |-> FALSE, sizeFails |-> FALSE,
           ret |-> [err |-> "none", dev |-> <<>>, named |-> <<>>]]

InitPartIdle ==
    /\ disk = <<>>
    /\ picked = NoPick

Init == InitNs /\ InitExec /\ InitNbdIdle /\ InitMount /\ InitPartIdle

execVars == <<files, hostResolv, pc, call, rounds>>

\* Execute's namespace setup on an existing mount point.
NsSetup ==
    \E mp \in ExecMountPoints, o \in SetupOutcomes :
        /\ Len(mounts) + Len(MountNamespaces) <= MaxMounts
        /\ mounts' = setupMountNamespace(mp, mounts, o)
        /\ last' = [op |-> "setup", mp |-> mp]
        /\ UNCHANGED <<umounts, execVars>>
        /\ UNCHANGED <<nbdVars, mountVars, partVars, table, inv>>

\* umount can only fail on a path that is mounted: the outcome of entry i is
\* a choice only if the entry's path under the mount point is in the table.
UmountCanFail(mp, tbl, o) ==
    \A i \in DOMAIN o :
        o[i] # "ok" =>
            isMounted(tbl, SlashTerminated(mp)
                             \o TrimPrefix(MountNamespaces[i].target, S_slash))

\* A call of CleanupMountNamespace with any string.
NsCleanup ==
    \E mp \in CleanupArgs, o \in UmountOutcomes :
        LET r == CleanupMountNamespace(mp, mounts, o)
        IN /\ UmountCanFail(mp, mounts, o)
           /\ mounts' = r.mounts
           /\ umounts' = r.log
           /\ last' = [op |-> "cleanup", mp |-> mp, err |-> r.err]
           /\ UNCHANGED execVars
           /\ UNCHANGED <<nbdVars, mountVars, partVars, table, inv>>

NextNs == NsSetup \/ NsCleanup

InitSpecNs == InitNs /\ InitExecIdle /\ InitNbdIdle /\ InitMount /\ InitPartIdle

SpecNs == InitSpecNs /\ [][NextNs]_vars

(***************************************************************************)
(* Executor.Execute, step by step, and what its caller runs afterwards     *)
(***************************************************************************)
AllEntries(x) == [i \in 1..Len(MountNamespaces) |-> x]

\* What the namespace mounts of an Execute call do here: all succeed, or none
\* does (the first entry's directory cannot be created, the other mounts fail).
ExecSetupOutcomes ==
    {AllEntries("ok"), [AllEntries("mountfail") EXCEPT ![1] = "mkdirfail"]}

ExecUmountOutcomes == {AllEntries("ok")}

\* The error value Execute returns: the wrapped error of a failed os.Stat
\* (line 42), or what chrootCmd.Run gave (line 87): nil, an *exec.ExitError
\* for a command that ran and did not exit with status zero, or the error of
\* a chroot that could not be started.
ErrorOf(statOk, result) ==
    IF ~statOk THEN "wrapped"
    ELSE CASE result = "ok" -> "nil"
           [] result = "nonzero" -> "exitError"
           [] OTHER -> "startError"

\* Lines 40-51: os.Stat on the mount point, then setupMountNamespace.
ExecuteEnter ==
    /\ pc = "idle"
    /\ \E statOk \in BOOLEAN, o \in ExecSetupOutcomes :
        IF ~statOk
        THEN /\ last' = [op |-> "execute", err |-> TRUE, started |-> FALSE,
                         restores |-> 0, stat |-> FALSE,
                         kind |-> ErrorOf(FALSE, "none")]
             /\ UNCHANGED <<mounts, umounts, execVars>>
        ELSE /\ Len(mounts) + Len(MountNamespaces) <= MaxMounts
             /\ mounts' = setupMountNamespace(MP_a, mounts, o)
             /\ pc' = "dns"
             /\ call' = NoCall
             /\ UNCHANGED <<umounts, last, files, hostResolv, rounds>>
    /\ UNCHANGED <<nbdVars, mountVars, partVars, table, inv>>

\* The nameserver lists, failures and edits Execute is run with here.
ExecNsLists == {<<>>, <<X_256>>}
ExecDnsFails == {"none", "writeTarget"}
ExecRestoreFails == {"none", "symlink"}
ExecEdits == {NoEdit, File(<<"w">>)}

\* What a call of backupAndSetupResolvConf records of itself.
AfterSetup(c, before, r, ns, fail) ==
    [c EXCEPT !.phase = "setup", !.ns = ns, !.dnsErr = (r.ret = "err"),
              !.orig = before.guest, !.origDest = before.dest,
              !.recorded = (before.backup.exists \/ before.sym.exists),
              !.slotWritten = r.wrote, !.ioFailed = (fail # "none"),
              !.edited = FALSE]

\* A plausible slip: a failed resolv.conf setup ends the call.
AfterDnsStopOnError(ret) == IF ret = "err" THEN "ret" ELSE "cmd"

\* Lines 55-59: both branches of the error test only log; the command is next.
AfterDns(ret) == "cmd"

\* Lines 53-59: backupAndSetupResolvConf; its error is logged and dropped.
ExecuteDns ==
    /\ pc = "dns"
    /\ \E ns \in ExecNsLists, fail \in ExecDnsFails :
        LET r == backupAndSetupResolvConf(files, hostResolv, ns, fail)
        IN /\ files' = Files(r)
           /\ call' = AfterSetup(call, files, r, ns, fail)
           /\ pc' = AfterDns(r.ret)
    /\ UNCHANGED <<mounts, umounts, last, hostResolv, rounds>>
    /\ UNCHANGED <<nbdVars, mountVars, partVars, table, inv>>

\* A plausible slip: the restore is called after a successful run only.
RestorePendingOnSuccessOnly(result) == result = "ok"

\* Lines 61-65: the restore is deferred before the command is built, so it is
\* pending whatever the command's result is.
RestorePending(result) == TRUE

\* Lines 67-86: chroot runs the guest command, which may rewrite the guest's
\* resolv.conf; Run fails at once when chroot cannot be started.
ExecuteCommand ==
    /\ pc = "cmd"
    /\ \E result \in {"ok", "nonzero", "notstarted"},
          edit \in ExecEdits :
        /\ result = "notstarted" => edit = NoEdit
        /\ files' = IF edit = NoEdit THEN files
                    ELSE [files EXCEPT !.guest = edit]
        /\ call' = [call EXCEPT !.started = TRUE, !.result = result,
                                !.edited = (edit # NoEdit)]
        /\ pc' = IF RestorePending(result) THEN "defer" ELSE "ret"
    /\ UNCHANGED <<mounts, umounts, last, hostResolv, rounds>>
    /\ UNCHANGED <<nbdVars, mountVars, partVars, table, inv>>

\* Lines 62-65: the deferred restoreResolvConf; its error is dropped.
ExecuteDefer ==
    /\ pc = "defer"
    /\ \E fail \in ExecRestoreFails :
        LET r == restoreResolvConf(files, fail)
        IN /\ files' = Files(r)
           /\ call' = [call EXCEPT !.phase = "restored", !.restores = @ + 1,
                                   !.ioFailed = (@ \/ fail # "none")]
    /\ pc' = "ret"
    /\ UNCHANGED <<mounts, umounts, last, hostResolv, rounds>>
    /\ UNCHANGED <<nbdVars, mountVars, partVars, table, inv>>

\* Line 87: Execute returns the command's error.
ExecuteReturn ==
    /\ pc = "ret"
    /\ pc' = "idle"
    /\ last' = [op |-> "execute", err |-> (call.result # "ok"),
                started |-> call.started, restores |-> call.restores,
                stat |-> TRUE, kind |-> ErrorOf(TRUE, call.result)]
    /\ call' = NoCall
    /\ UNCHANGED <<mounts, umounts, files, hostResolv, rounds>>
    /\ UNCHANGED <<nbdVars, mountVars, partVars, table, inv>>

\* The caller's CleanupMountNamespace on the mount point of the call.
CallerCleanupNamespace ==
    /\ pc = "idle"
    /\ \E o \in ExecUmountOutcomes :
        LET r == CleanupMountNamespace(MP_a, mounts, o)
        IN /\ UmountCanFail(MP_a, mounts, o)
           /\ mounts' = r.mounts
           /\ umounts' = r.log
           /\ last' = [op |-> "cleanup", mp |-> MP_a, err |-> r.err]
    /\ UNCHANGED execVars
    /\ UNCHANGED <<nbdVars, mountVars, partVars, table, inv>>

\* The caller's CleanupBackupFiles.
CallerCleanupBackupFiles ==
    /\ pc = "idle"
    /\ files' = CleanupBackupFiles(files)
    /\ UNCHANGED <<mounts, umounts, last, hostResolv, pc, call, rounds>>
    /\ UNCHANGED <<nbdVars, mountVars, partVars, table, inv>>

\* exec.go, lines 91-104: what the exec command reports for the error value
\* Execute returned. Only an *exec.ExitError is looked at (it ends the process
\* with its nonzero code); for every other value RunE returns nil.
ReportOf(kind) == IF kind = "exitError" THEN "failure" ELSE "success"

\* The exec command, after Execute and the cleanup closure, reports.
CallerReport ==
    /\ pc = "idle"
    /\ last.op = "execute"
    /\ last' = [op |-> "report", err |-> last.err, kind |-> last.kind,
                status |-> ReportOf(last.kind)]
    /\ UNCHANGED <<mounts, umounts, execVars>>
    /\ UNCHANGED <<nbdVars, mountVars, partVars, table, inv>>

\* The host's resolv.conf changes (a DHCP renewal, say).
HostChange ==
    /\ pc = "idle"
    /\ \E h \in HostContents : h # hostResolv /\ hostResolv' = h
    /\ UNCHANGED <<mounts, umounts, last, files, pc, call, rounds>>
    /\ UNCHANGED <<nbdVars, mountVars, partVars, table, inv>>

NextExec ==
    \/ ExecuteEnter
    \/ ExecuteDns
    \/ ExecuteCommand
    \/ ExecuteDefer
    \/ ExecuteReturn
    \/ CallerCleanupNamespace
    \/ CallerCleanupBackupFiles
    \/ CallerReport
    \/ HostChange

SpecExec == Init /\ [][NextExec]_vars

(***************************************************************************)
(* backupAndSetupResolvConf and restoreResolvConf, called as Execute calls *)
(* them: a setup, the guest command, the restore; with every nameserver    *)
(* list and every failing system call                                      *)
(***************************************************************************)
\* backupAndSetupResolvConf is called at most this many times in a run.
MaxRounds == 2

DnsSetup ==
    /\ call.phase # "setup"
    /\ rounds < MaxRounds
    /\ rounds' = rounds + 1
    /\ \E ns \in NsLists, fail \in DnsFails :
        LET r == backupAndSetupResolvConf(files, hostResolv, ns, fail)
        IN /\ files' = Files(r)
           /\ call' = AfterSetup(NoCall, files, r, ns, fail)
    /\ UNCHANGED <<mounts, umounts, last, hostResolv, pc>>
    /\ UNCHANGED <<nbdVars, mountVars, partVars, table, inv>>

\* The guest command rewrites the guest's resolv.conf.
DnsGuestEdit ==
    /\ call.phase = "setup"
    /\ \E edit \in GuestEdits :
        /\ edit # files.guest
        /\ files' = [files EXCEPT !.guest = edit]
    /\ call' = [call EXCEPT !.edited = TRUE]
    /\ UNCHANGED <<mounts, umounts, last, hostResolv, pc, rounds>>
    /\ UNCHANGED <<nbdVars, mountVars, partVars, table, inv>>

DnsRestore ==
    /\ call.phase = "setup"
    /\ \E fail \in RestoreFails :
        LET r == restoreResolvConf(files, fail)
        IN /\ files' = Files(r)
           /\ call' = [call EXCEPT !.phase = "restored", !.restores = @ + 1,
                                   !.ioFailed = (@ \/ fail # "none")]
    /\ UNCHANGED <<mounts, umounts, last, hostResolv, pc, rounds>>
    /\ UNCHANGED <<nbdVars, mountVars, partVars, table, inv>>

DnsCleanupBackupFiles ==
    /\ call.phase # "setup"
    /\ files' = CleanupBackupFiles(files)
    /\ call' = NoCall
    /\ UNCHANGED <<mounts, umounts, last, hostResolv, pc, rounds>>
    /\ UNCHANGED <<nbdVars, mountVars, partVars, table, inv>>

DnsHostChange ==
    /\ call.phase # "setup"
    /\ \E h \in HostContents : h # hostResolv /\ hostResolv' = h
    /\ UNCHANGED <<mounts, umounts, last, files, pc, call, rounds>>
    /\ UNCHANGED <<nbdVars, mountVars, partVars, table, inv>>

NextDns ==
    \/ DnsSetup
    \/ DnsGuestEdit
    \/ DnsRestore
    \/ DnsCleanupBackupFiles
    \/ DnsHostChange

SpecDns == Init /\ [][NextDns]_vars

(***************************************************************************)
(* The device pool as the host changes it, and FindFreeNBDDevice on it     *)
(***************************************************************************)
\* A slot's pid file appears, disappears or changes.
NbdSetMarker ==
    /\ \E i \in TouchedSlots, m \in Markers :
        /\ m # pidFiles[i]
        /\ pidFiles' = [pidFiles EXCEPT ![i] = m]
    /\ found' = NoResult
    /\ UNCHANGED procs
    /\ UNCHANGED <<mounts, umounts, last, execVars, mountVars, partVars, table, inv>>

NbdProcStart ==
    /\ \E p \in Pids \ procs : procs' = procs \cup {p}
    /\ found' = NoResult
    /\ UNCHANGED pidFiles
    /\ UNCHANGED <<mounts, umounts, last, execVars, mountVars, partVars, table, inv>>

NbdProcExit ==
    /\ \E p \in procs : procs' = procs \ {p}
    /\ found' = NoResult
    /\ UNCHANGED pidFiles
    /\ UNCHANGED <<mounts, umounts, last, execVars, mountVars, partVars, table, inv>>

NbdFind ==
    /\ found' = [FindFreeNBDDevice(pidFiles, procs) EXCEPT !.valid = TRUE]
    /\ UNCHANGED <<pidFiles, procs>>
    /\ UNCHANGED <<mounts, umounts, last, execVars, mountVars, partVars, table, inv>>

NextNbd ==
    \/ NbdSetMarker
    \/ NbdProcStart
    \/ NbdProcExit
    \/ NbdFind

InitSpecNbd == InitNs /\ InitExecIdle /\ InitNbd /\ InitMount /\ InitPartIdle

SpecNbd == InitSpecNbd /\ [][NextNbd]_vars

(***************************************************************************)
(* The mount manager at work on one mount point: Mount and Unmount with    *)
(* every failing step, while the guest is in use                           *)
(***************************************************************************)
S_imgA == <<"/", "i", "/", "a">>

Images == {S_imgA}

\* An image in another directory whose file has the same base name.
S_imgB == <<"/", "j", "/", "a">>

\* The images that Mount is called with.
MountImages == {S_imgA, S_imgB}

MountFails ==
    {"none", "stat", "mkdir", "connect", "probe", "partition", "mount",
     "writeRecord"}

World ==
    [mounts |-> mounts, pidFiles |-> pidFiles, procs |-> procs,
     records |-> records, dir |-> mpDir, files |-> files, guestTmp |-> guestTmp,
     host |-> hostEntries, busy |-> FALSE]

SetWorld(w) ==
    /\ mounts' = w.mounts
    /\ pidFiles' = w.pidFiles
    /\ procs' = w.procs
    /\ records' = w.records
    /\ mpDir' = w.dir
    /\ files' = w.files
    /\ guestTmp' = w.guestTmp
    /\ hostEntries' = w.host

\* One call of MountWithPartition, with what is recorded of it.
MountCall(imagePath, fail, o) ==
    /\ \E w \in {World} : \E r \in {MountWithPartition(w, imagePath, fail, o)} :
          /\ SetWorld(r.w)
          /\ mlast' = [NoOp EXCEPT
                !.op = "mount", !.ret = r.ret, !.slot = r.slot,
                !.image = imagePath, !.created = ~mpDir,
                !.hadRecord = records[RecordName(MountPointOf(imagePath))].exists,
                !.fresh = (~isMounted(mounts, MountPointOf(imagePath))
                           /\ ~records[RecordName(MountPointOf(imagePath))].exists)]
    /\ UNCHANGED <<umounts, last, hostResolv, pc, call, rounds, found, store,
                   partVars, table, inv>>

Mount ==
    /\ Len(mounts) < MaxMounts
    /\ \E imagePath \in Images, fail \in MountFails, o \in {"ok", "fail"} :
        /\ o = "fail" => fail = "writeRecord"
        /\ MountCall(imagePath, fail, o)

\* One call of Unmount on the mount point, with what is recorded of it.
UnmountOf(o) ==
    /\ \E w \in {World} : \E r \in {Unmount(w, MP_a, o)} :
          /\ SetWorld(r.w)
          /\ mlast' = [NoOp EXCEPT
                !.op = "unmount", !.ret = r.ret,
                !.hadRecord = records[RecordName(MP_a)].exists,
                !.hadDir = mpDir,
                !.nonEmpty = (mpDir /\ ReadDir(UnmountAttempt(w, MP_a, o), MP_a) # {}),
                !.files = files, !.tmp = guestTmp]
    /\ UNCHANGED <<umounts, last, hostResolv, pc, call, rounds, found, store,
                   partVars, table, inv>>

UnmountCall ==
    \E o \in {"ok", "fail"} :
        /\ o = "fail" => isMounted(mounts, MP_a)
        /\ UnmountOf(o)

\* An Execute in the mounted guest has set up its resolv.conf and has not
\* come to its restore.
GuestSetup ==
    /\ isMounted(mounts, MP_a)
    /\ rounds < MaxRounds
    /\ rounds' = rounds + 1
    /\ files' = Files(backupAndSetupResolvConf(files, hostResolv, <<>>, "none"))
    /\ mlast' = NoOp
    /\ UNCHANGED <<mounts, umounts, last, hostResolv, pc, call, nbdVars,
                   records, mpDir, guestTmp, hostEntries, store, partVars, table, inv>>

NextMount ==
    \/ Mount
    \/ UnmountCall
    \/ GuestSetup

SpecMount == InitSpecNs /\ [][NextMount]_vars

(***************************************************************************)
(* The commands: qimi mount, qimi exec, qimi unmount                       *)
(***************************************************************************)
\* Storage.GetMount: a record whose key or image path is the target.
GetMount(st, target) == target \in st

\* Executor.Execute as one call on the world w: the world afterwards and the
\* error returned. x gives what the environment and the guest command do.
Execute(w, mountPoint, host, x) ==
    IF ~w.dir THEN [w |-> w, err |-> TRUE]
    ELSE IF ~isMounted(w.mounts, mountPoint)
    THEN \* no filesystem on the mount point: the MkdirAll calls of
         \* setupMountNamespace and backupAndSetupResolvConf (etcDir) make
         \* their directories in the host's directory; the resolv.conf written
         \* there is removed again by the restore (empty content backup).
         [w |-> [w EXCEPT !.mounts = setupMountNamespace(mountPoint, @, x.setup),
                          !.host = TRUE],
          err |-> x.result # "ok"]
    ELSE
    Then([w EXCEPT !.mounts = setupMountNamespace(mountPoint, @, x.setup),
                   !.guestTmp = @ \/ (isMounted(w.mounts, mountPoint)
                                      /\ x.setup[4] # "mkdirfail")], LAMBDA w1 :
    Then([w1 EXCEPT !.files =
              Files(backupAndSetupResolvConf(@, host, x.ns, x.dnsFail))], LAMBDA w2 :
    Then([w2 EXCEPT !.files =
              IF x.edit = NoEdit THEN @ ELSE [@ EXCEPT !.guest = x.edit]], LAMBDA w3 :
        [w |-> [w3 EXCEPT !.files = Files(restoreResolvConf(@, x.restoreFail))],
         err |-> x.result # "ok"])))

\* The cleanup closure of the exec command: namespace teardown, backup
\* files, and the Unmount of a temporary mount.
cleanup(w, mountPoint, tempMount, co, uo) ==
    Then([w EXCEPT !.mounts = CleanupMountNamespace(mountPoint, @, co).mounts,
                   !.files = CleanupBackupFiles(@)], LAMBDA w1 :
        IF tempMount THEN Unmount(w1, mountPoint, uo).w ELSE w1)

\* What the environment and the guest command do during one exec.
ExecInputs ==
    [setup : ExecSetupOutcomes, ns : {<<>>}, dnsFail : {"none"},
     edit : ExecEdits, result : {"ok", "nonzero", "notstarted"},
     restoreFail : {"none"}]

CmdUmountOutcomes == {AllEntries("ok"), AllEntries("lazy"), AllEntries("fail")}

\* qimi mount: MountWithPartition, then AddMount; when the record cannot be
\* saved the mount is undone.
MountCmdRun(dep) ==
    /\ pc = "idle"
    /\ Len(mounts) <= Len(HostMounts) + 1
    /\ \E imagePath \in Images, fail \in MountFails, addFail \in BOOLEAN,
          o \in {"ok", "fail"} :
        /\ o = "fail" => (fail = "writeRecord" \/ addFail)
        /\ addFail => fail = "none"
        /\ \E w \in {World} : \E r \in {MountWithPartition(w, imagePath, fail,
                                    IF fail = "writeRecord" THEN o ELSE "ok")} :
              /\ SetWorld(IF r.ret = "ok" /\ addFail
                           THEN Unmount(r.w, MountPointOf(imagePath), o).w
                           ELSE r.w)
              /\ store' = IF r.ret = "ok" /\ ~addFail
                          THEN store \cup {imagePath} ELSE store
              /\ mlast' = [NoOp EXCEPT !.op = "mountCmd",
                              !.ret = IF r.ret = "ok" /\ addFail
                                      THEN "addErr" ELSE r.ret,
                              !.slot = r.slot, !.dep = dep]
    /\ UNCHANGED <<umounts, last, hostResolv, pc, call, rounds, found,
                   partVars, table, inv>>

\* The commands are followed while at most this many slots are connected.
MaxConnected == 2

MountCmd ==
    /\ Cardinality(procs) <= MaxConnected
    /\ \E dep \in {"none"} : MountCmdRun(dep)

\* qimi exec, lines 27-103: the target is looked up, mounted temporarily if
\* it has no record, the command is executed, and the cleanup closure runs.
ExecCmdRun(dep) ==
    /\ pc = "idle"
    /\ Len(mounts) <= Len(HostMounts) + 1
    /\ \E target \in Images, fail \in MountFails :
        /\ GetMount(store, target) => fail = "none"
        /\ \E w \in {World}, mountPoint \in {MountPointOf(target)} :
           \E m \in {IF GetMount(store, target)
                     THEN [w |-> w, ret |-> "ok", slot |-> -1]
                     ELSE MountWithPartition(w, target, fail, "ok")} :
            IF m.ret = "err"
            THEN /\ SetWorld(m.w)
                 /\ mlast' = [NoOp EXCEPT !.op = "exec", !.ret = "mountErr",
                                          !.slot = m.slot, !.dep = dep]
            ELSE \E x \in ExecInputs :
                 \E e \in {Execute(m.w, mountPoint, hostResolv, x)} :
                 \E co \in CmdUmountOutcomes, uo \in {"ok", "fail"} :
                   /\ UmountCanFail(mountPoint, e.w.mounts, co)
                   /\ uo = "fail" =>
                         /\ ~GetMount(store, target)
                         /\ isMounted(cleanup(e.w, mountPoint, FALSE, co, uo).mounts,
                                      mountPoint)
                   /\ SetWorld(cleanup(e.w, mountPoint,
                                        ~GetMount(store, target), co, uo))
                   /\ mlast' = [NoOp EXCEPT !.op = "exec",
                                   !.ret = IF e.err THEN "execErr" ELSE "ok",
                                   !.slot = m.slot,
                                   !.temp = ~GetMount(store, target),
                                   !.dep = dep]
    /\ UNCHANGED <<umounts, last, hostResolv, pc, call, rounds, found, store,
                   partVars, table, inv>>

ExecCmd ==
    /\ Cardinality(procs) <= MaxConnected
    /\ \E dep \in {"none"} : ExecCmdRun(dep)

\* An unmount command that drops the record whatever Unmount returned.
RemoveAfterUnmountAlways(st, target, ret) == st \ {target}

\* The unmount command exits when Unmount returns an error; RemoveMount is
\* reached after a nil return only.
RemoveAfterUnmount(st, target, ret) == IF ret = "ok" THEN st \ {target} ELSE st

\* qimi unmount: the target is looked up, unmounted, and its record removed.
UnmountCmdRun(dep) ==
    /\ pc = "idle"
    /\ \E target \in Images, o \in {"ok", "fail"}, busy \in BOOLEAN :
        /\ GetMount(store, target)
        /\ o = "fail" => isMounted(mounts, MountPointOf(target))
        /\ busy => (mpDir /\ o = "ok")
        /\ \E w \in {[World EXCEPT !.busy = busy]} :
           \E r \in {Unmount(w, MountPointOf(target), o)} :
              /\ SetWorld(r.w)
              /\ store' = RemoveAfterUnmount(store, target, r.ret)
              /\ mlast' = [NoOp EXCEPT !.op = "unmountCmd", !.ret = r.ret,
                                       !.dep = dep]
    /\ UNCHANGED <<umounts, last, hostResolv, pc, call, rounds, found,
                   partVars, table, inv>>

UnmountCmd == \E dep \in {"none"} : UnmountCmdRun(dep)

\* Storage.isValidMount: the mount point exists, its metadata file exists,
\* and the text of /proc/mounts contains the mount point's path.
isValidMount(w, mountPoint) ==
    /\ w.dir
    /\ w.records[RecordName(mountPoint)].exists
    /\ \E i \in 1..Len(w.mounts) : Contains(w.mounts[i].target, mountPoint)

\* qimi cleanup: CleanupStaleMounts deletes every record that is not valid.
CleanupCmdRun(dep) ==
    /\ pc = "idle"
    /\ store' = {t \in store : isValidMount(World, MountPointOf(t))}
    /\ mlast' = [NoOp EXCEPT !.op = "cleanupCmd", !.ret = "ok", !.dep = dep]
    /\ UNCHANGED <<mounts, umounts, last, execVars, nbdVars, partVars, table, inv,
                   records, mpDir, guestTmp, hostEntries>>

CleanupCmd == \E dep \in {"none"} : CleanupCmdRun(dep)

NextCmd ==
    \/ MountCmd
    \/ ExecCmd
    \/ UnmountCmd
    \/ CleanupCmd

SpecCmd == InitSpecNs /\ [][NextCmd]_vars

(***************************************************************************)
(* A temporary exec, its teardown taken one step at a time                 *)
(***************************************************************************)
\* The teardown with the device disconnected before the filesystem is
\* unmounted.
TeardownNextDisconnectFirst(step) ==
    CASE step = "restore"      -> "namespace"
      [] step = "namespace"    -> "backupFiles"
      [] step = "backupFiles"  -> "disconnect"
      [] step = "disconnect"   -> "umount"
      [] step = "umount"       -> "backupFiles2"
      [] step = "backupFiles2" -> "rmdir"
      [] OTHER                 -> "idle"

\* What runs after each step: the deferred restore when Execute returns
\* (part_000:61-65), then the cleanup closure (exec.go:68-83) with
\* CleanupMountNamespace, CleanupBackupFiles and Unmount, whose body
\* (part_003:226-245) is umount, disconnectNBD, CleanupBackupFiles and the
\* removal of the directory.
TeardownNext(step) ==
    CASE step = "restore"      -> "namespace"
      [] step = "namespace"    -> "backupFiles"
      [] step = "backupFiles"  -> "umount"
      [] step = "umount"       -> "disconnect"
      [] step = "disconnect"   -> "backupFiles2"
      [] step = "backupFiles2" -> "rmdir"
      [] OTHER                 -> "idle"

Done(step) == [op |-> "temp", done |-> Append(last.done, step)]

\* qimi exec on an image without a record, up to the return of the guest
\* command: Mount, the namespace mounts, the resolv.conf setup, the command.
TempStart ==
    /\ pc = "idle"
    /\ ~mpDir
    /\ procs = {}
    /\ \E x \in ExecInputs :
       \E m \in {MountWithPartition(World, S_imgA, "none", "ok")} :
       \E w1 \in {[m.w EXCEPT
                    !.mounts = setupMountNamespace(MP_a, @, x.setup),
                    !.guestTmp = @ \/ x.setup[4] # "mkdirfail",
                    !.files = Files(backupAndSetupResolvConf(@, hostResolv,
                                                             x.ns, x.dnsFail))]} :
          SetWorld([w1 EXCEPT !.files = IF x.edit = NoEdit THEN @
                                        ELSE [@ EXCEPT !.guest = x.edit]])
    /\ pc' = "restore"
    /\ last' = [op |-> "temp", done |-> <<>>]
    /\ UNCHANGED <<umounts, hostResolv, call, rounds, found, mlast, store,
                   partVars, table, inv>>

TempRestore ==
    /\ pc = "restore"
    /\ files' = Files(restoreResolvConf(files, "none"))
    /\ pc' = TeardownNext(pc)
    /\ last' = Done(pc)
    /\ UNCHANGED <<mounts, umounts, hostResolv, call, rounds, nbdVars, records,
                   mpDir, guestTmp, hostEntries, mlast, store, partVars, table, inv>>

TempNamespace ==
    /\ pc = "namespace"
    /\ \E o \in UmountOutcomes :
        LET r == CleanupMountNamespace(MP_a, mounts, o)
        IN /\ UmountCanFail(MP_a, mounts, o)
           /\ mounts' = r.mounts
           /\ umounts' = r.log
    /\ pc' = TeardownNext(pc)
    /\ last' = Done(pc)
    /\ UNCHANGED <<files, hostResolv, call, rounds, nbdVars, records, mpDir,
                   guestTmp, hostEntries, mlast, store, partVars, table, inv>>

TempBackupFiles ==
    /\ pc \in {"backupFiles", "backupFiles2"}
    /\ files' = CleanupBackupFiles(files)
    /\ pc' = TeardownNext(pc)
    /\ last' = Done(pc)
    /\ UNCHANGED <<mounts, umounts, hostResolv, call, rounds, nbdVars, records,
                   mpDir, guestTmp, hostEntries, mlast, store, partVars, table, inv>>

TempUmount ==
    /\ pc = "umount"
    /\ \E o \in {"ok", "fail"} :
        /\ o = "fail" => isMounted(mounts, MP_a)
        /\ SetWorld(UnmountAttempt(World, MP_a, o))
    /\ pc' = TeardownNext(pc)
    /\ last' = Done(pc)
    /\ UNCHANGED <<umounts, hostResolv, call, rounds, found, mlast, store,
                   partVars, table, inv>>

TempDisconnect ==
    /\ pc = "disconnect"
    /\ SetWorld(disconnectNBD(World, MP_a).w)
    /\ pc' = TeardownNext(pc)
    /\ last' = Done(pc)
    /\ UNCHANGED <<umounts, hostResolv, call, rounds, found, mlast, store,
                   partVars, table, inv>>

TempRmdir ==
    /\ pc = "rmdir"
    /\ SetWorld(UnmountRemoveIfEmpty(World, MP_a).w)
    /\ pc' = TeardownNext(pc)
    /\ last' = Done(pc)
    /\ UNCHANGED <<umounts, hostResolv, call, rounds, found, mlast, store,
                   partVars, table, inv>>

NextTemp ==
    \/ TempStart
    \/ TempRestore
    \/ TempNamespace
    \/ TempBackupFiles
    \/ TempUmount
    \/ TempDisconnect
    \/ TempRmdir

SpecTemp == InitSpecNs /\ [][NextTemp]_vars

(***************************************************************************)
(* The commands behind the root command's dependency check                 *)
(***************************************************************************)
\* The hosts the commands are started on: /proc/modules unreadable, without
\* or with the nbd line; modprobe, qemu-nbd and partprobe there or not.
DepEnvs ==
    { DepEnv(FALSE, <<>>, FALSE, TRUE, TRUE) } \cup
    { DepEnv(TRUE, data, modprobe, qemuNbd, partprobe) :
        data \in {M_loop, M_loop \o M_nbd}, modprobe \in BOOLEAN,
        qemuNbd \in BOOLEAN, partprobe \in BOOLEAN }

DepResults == { CheckSystemDependencies(env) : env \in DepEnvs }

\* Any command on a host where PersistentPreRunE ends the process: the
\* command's Run is never entered.
RootAbort ==
    /\ pc = "idle"
    /\ \E cmd \in {"mountCmd", "exec", "unmountCmd", "ls", "cleanup"},
          env \in DepEnvs :
        /\ PersistentPreRunE(CheckSystemDependencies(env)) = "exit"
        /\ mlast' = [NoOp EXCEPT !.op = cmd, !.ret = "depErr",
                                 !.dep = CheckSystemDependencies(env),
                                 !.env = env]
    /\ UNCHANGED <<mounts, umounts, last, execVars, nbdVars, partVars, table, inv,
                   records, mpDir, guestTmp, hostEntries, store>>

\* The commands are started one after the other, each on a host where at
\* most one slot is still connected.
RootMount ==
    /\ procs = {}
    /\ \E dep \in DepResults :
          PersistentPreRunE(dep) = "run" /\ MountCmdRun(dep)

RootExec ==
    /\ Cardinality(procs) <= 1
    /\ \E dep \in DepResults :
          PersistentPreRunE(dep) = "run" /\ ExecCmdRun(dep)

RootUnmount ==
    \E dep \in DepResults :
        PersistentPreRunE(dep) = "run" /\ UnmountCmdRun(dep)

RootCleanup ==
    \E dep \in DepResults :
        PersistentPreRunE(dep) = "run" /\ CleanupCmdRun(dep)

NextRoot ==
    \/ RootAbort
    \/ RootMount
    \/ RootExec
    \/ RootUnmount
    \/ RootCleanup

SpecRoot == InitSpecNs /\ [][NextRoot]_vars

(***************************************************************************)
(* GetPartitionDevice: the partition of a connected device that is mounted *)
(***************************************************************************)
\* A line of lsblk -o NAME,FSTYPE -r -n for the device, together with what
\* lsblk -o NAME,SIZE -r -n -b prints for the same name: sized is whether
\* the SIZE field is there and parses as an integer.
Line(name, fstype, sized, size) ==
    [name |-> name, fstype |-> fstype, sized |-> sized, size |-> size]

S_devSlash == S_dev \o S_slash

rootFSTypes == <<"ext4", "ext3", "ext2", "xfs", "btrfs", "f2fs">>

preferredFS ==
    <<"ext4", "ext3", "ext2", "xfs", "btrfs", "f2fs", "ntfs", "fat32", "vfat",
      "hfs", "hfsplus">>

\* Membership in a list of filesystem types (lsblk prints them in lower
\* case, so strings.EqualFold and strings.ToLower compare them as they are).
InList(list, fstype) == \E i \in 1..Len(list) : list[i] = fstype

\* The priority map: the index of the type in preferredFS; ok is FALSE for a
\* type that is not in the map.
priority(fstype) ==
    IF InList(preferredFS, fstype)
    THEN [ok |-> TRUE, pri |-> (CHOOSE i \in 1..Len(preferredFS) : preferredFS[i] = fstype) - 1]
    ELSE [ok |-> FALSE, pri |-> 0]

\* Lines 285-318: the partitions among the lines, in listing order.
RECURSIVE ParsePartitions(_, _)
ParsePartitions(lines, baseDeviceName) ==
    IF lines = <<>> THEN <<>>
    ELSE LET name == Head(lines).name
             partNum == Atoi(TrimPrefix(name, baseDeviceName \o <<"p">>)).val
             rest == ParsePartitions(Tail(lines), baseDeviceName)
         IN IF name # baseDeviceName
               /\ HasPrefix(name, baseDeviceName \o <<"p">>)
               /\ partNum > 0
            THEN <<[Number |-> partNum, Path |-> S_devSlash \o name,
                    FSType |-> Head(lines).fstype]>> \o rest
            ELSE rest

\* Lines 298-303: the line of the base device names a filesystem type.
DeviceHasFS(lines, baseDeviceName) ==
    \E i \in 1..Len(lines) :
        /\ lines[i].name = baseDeviceName
        /\ lines[i].fstype \notin {"", "-"}

\* A sort that leaves the listing order alone.
ExchangesNever(a, b) == FALSE

\* Lines 356-364: whether the sort exchanges the entries at i and j.
Exchanges(a, b) ==
    LET p1 == priority(a.FSType)
        p2 == priority(b.FSType)
    IN \/ (p1.ok /\ p2.ok /\ p2.pri < p1.pri)
       \/ (~p1.ok /\ p2.ok)

\* Lines 354-366: the two loops of the sort, from position i and j on.
RECURSIVE SortFrom(_, _, _)
SortFrom(ps, i, j) ==
    IF i >= Len(ps) THEN ps
    ELSE IF j > Len(ps) THEN SortFrom(ps, i + 1, i + 2)
    ELSE IF Exchanges(ps[i], ps[j])
    THEN SortFrom([ps EXCEPT ![i] = ps[j], ![j] = ps[i]], i, j + 1)
    ELSE SortFrom(ps, i, j + 1)

\* detectSuitablePartitions: the partitions, whether the base device has a
\* filesystem, and whether an error is returned.
detectSuitablePartitions(nbd, lines, lsblkFails, statOk) ==
    IF lsblkFails
    THEN [partitions |-> <<>>, deviceHasFS |-> statOk, err |-> ~statOk]
    ELSE LET baseDeviceName == TrimPrefix(nbd, S_devSlash)
             partitions == ParsePartitions(lines, baseDeviceName)
             suitablePartitions ==
                 SelectSeq(partitions, LAMBDA q : q.FSType \notin {"", "-"})
         IN [partitions |->
                 IF suitablePartitions = <<>> THEN partitions
                 ELSE SortFrom(suitablePartitions, 1, 2),
             deviceHasFS |-> DeviceHasFS(lines, baseDeviceName),
             err |-> FALSE]

\* Lines 393-411: the size map, from the lines whose size field parses.
partitionSizes(lines) ==
    [path \in {S_devSlash \o lines[i].name : i \in {k \in 1..Len(lines) : lines[k].sized}}
        |-> (CHOOSE i \in 1..Len(lines) :
                lines[i].sized /\ S_devSlash \o lines[i].name = path)]

\* Lines 415-425: the loop over the candidates from index k on; best is the
\* index of the largest so far (0 for none) and largestSize its size.
RECURSIVE LargestFrom(_, _, _, _, _)
LargestFrom(partitions, lines, k, best, largestSize) ==
    IF k > Len(partitions) THEN [best |-> best, largestSize |-> largestSize]
    ELSE LET sizes == partitionSizes(lines)
             path == partitions[k].Path
         IN IF path \in DOMAIN sizes /\ lines[sizes[path]].size > largestSize
            THEN LargestFrom(partitions, lines, k + 1, k, lines[sizes[path]].size)
            ELSE LargestFrom(partitions, lines, k + 1, best, largestSize)

\* The comparison of findLargestPartition with its strictness given up.
findLargestPartitionFirstSized(partitions, lines, sizeFails) ==
    LET sized == {k \in 1..Len(partitions) :
                     partitions[k].Path \in DOMAIN partitionSizes(lines)}
    IN IF partitions = <<>> \/ sizeFails \/ sized = {}
       THEN [err |-> TRUE, best |-> 0]
       ELSE [err |-> FALSE, best |-> CHOOSE k \in sized : \A m \in sized : k <= m]

\* findLargestPartition: an error, or the index of the largest candidate.
findLargestPartition(partitions, lines, sizeFails) ==
    IF partitions = <<>> \/ sizeFails THEN [err |-> TRUE, best |-> 0]
    ELSE LET r == LargestFrom(partitions, lines, 1, 0, -1)
         IN IF r.largestSize = -1 THEN [err |-> TRUE, best |-> 0]
            ELSE [err |-> FALSE, best |-> r.best]

Found(dev) == [err |-> "none", dev |-> dev, named |-> <<>>]

\* The bare device refused when it has no partitions.
NoPartitionsRefused(nbd, deviceHasFS) ==
    [err |-> "nofs", dev |-> <<>>, named |-> <<>>]

\* Lines 167-174: without partitions the device itself is returned, whether
\* or not it has a filesystem.
NoPartitions(nbd, deviceHasFS) == Found(nbd)

\* The path of the first partition, whatever number is asked for.
PartitionPathFirst(nbd, partitionNum) == nbd \o <<"p">> \o Itoa(1)

\* fmt.Sprintf("%sp%d", nbd, partitionNum)
PartitionPath(nbd, partitionNum) == nbd \o <<"p">> \o Itoa(partitionNum)

\* The choice that takes the last of the detected partitions.
ChooseAmongLast(partitions, lines, sizeFails) ==
    Found(partitions[Len(partitions)].Path)

\* Lines 176-226: the choice among two or more detected partitions.
ChooseAmong(partitions, lines, sizeFails) ==
    LET rootPartitions ==
            SelectSeq(partitions, LAMBDA q : InList(rootFSTypes, q.FSType))
        allSameType ==
            \A k \in 2..Len(rootPartitions) :
                rootPartitions[k].FSType = rootPartitions[1].FSType
        largest == findLargestPartition(rootPartitions, lines, sizeFails)
    IN IF Len(rootPartitions) = 1 THEN Found(rootPartitions[1].Path)
       ELSE IF Len(rootPartitions) > 1
       THEN IF allSameType
            THEN IF largest.err
                 THEN [err |-> "ambiguous", dev |-> <<>>,
                       named |-> [k \in 1..Len(rootPartitions) |->
                                     <<rootPartitions[k].Number,
                                       rootPartitions[k].FSType>>]]
                 ELSE Found(rootPartitions[largest.best].Path)
            ELSE Found(rootPartitions[1].Path)
       ELSE Found(partitions[1].Path)

\* GetPartitionDevice on a device whose lsblk listing is lines: the error,
\* the device path returned, and the candidates the error message names.
GetPartitionDevice(nbd, partitionNum, lines, lsblkFails, statOk, sizeFails) ==
    IF partitionNum > 0
    THEN IF \E i \in 1..Len(lines) :
               S_devSlash \o lines[i].name = PartitionPath(nbd, partitionNum)
         THEN Found(PartitionPath(nbd, partitionNum))
         ELSE [err |-> "notfound", dev |-> <<>>, named |-> <<>>]
    ELSE LET d == detectSuitablePartitions(nbd, lines, lsblkFails, statOk)
         IN IF d.err THEN [err |-> "lsblk", dev |-> <<>>, named |-> <<>>]
            ELSE IF d.partitions = <<>> THEN NoPartitions(nbd, d.deviceHasFS)
            ELSE IF Len(d.partitions) > 1
            THEN ChooseAmong(d.partitions, lines, sizeFails)
            ELSE Found(d.partitions[1].Path)

\* The partition numbers, filesystem types and sizes (in GiB) listed here.
PartNums == {1, 2, 3}
PartFsTypes == {"ext4", "xfs", "btrfs", "vfat", "swap", ""}
PartSizes == {<<FALSE, 0>>, <<TRUE, 10>>, <<TRUE, 20>>}

S_nbd0 == S_nbd \o Itoa(0)

\* The orders in which up to three partitions with distinct numbers are
\* listed.
ListingOrders ==
    { q \in UNION {[1..k -> PartNums] : k \in 0..Cardinality(PartNums)} :
         \A i, j \in DOMAIN q : i # j => q[i] # q[j] }

\* The listing of /dev/nbd0: the line of the device with filesystem type b,
\* then the partitions o with the types t and the sizes z.
Listing(b, o, t, z) ==
    <<Line(S_nbd0, b, FALSE, 0)>> \o
    [i \in 1..Len(o) |->
        Line(S_nbd0 \o <<"p">> \o Itoa(o[i]), t[i], z[i][1], z[i][2])]

InitPart ==
    /\ \E o \in ListingOrders :
       \E t \in [1..Len(o) -> PartFsTypes], z \in [1..Len(o) -> PartSizes],
          b \in {"", "ext4"} :
          /\ Len(o) > 0 => b = ""
          /\ disk = Listing(b, o, t, z)
    /\ picked = NoPick

InitSpecPart == InitNs /\ InitExecIdle /\ InitNbdIdle /\ InitMount /\ InitPart

\* The call of GetPartitionDevice that mountQemuImage makes on the device it
\* has connected and probed: the device nodes are those lsblk lists.
PartSelect ==
    /\ picked = NoPick
    /\ \E partitionNum \in {0} \cup PartNums, lsblkFails \in BOOLEAN,
          sizeFails \in BOOLEAN :
        /\ partitionNum > 0 => ~lsblkFails /\ ~sizeFails
        /\ lsblkFails => ~sizeFails
        /\ picked' = [num |-> partitionNum, lsblkFails |-> lsblkFails,
                      sizeFails |-> sizeFails,
                      ret |-> GetPartitionDevice(NbdPath(0), partitionNum, disk,
                                                 lsblkFails, TRUE, sizeFails)]
    /\ UNCHANGED <<disk, inv, table>>
    /\ UNCHANGED <<mounts, umounts, last, execVars, nbdVars, mountVars>>

NextPart == PartSelect

SpecPart == InitSpecPart /\ [][NextPart]_vars

\* C3: a mount point that is empty, "/", "/dev", "/proc", "/sys" or outside
\* the allow-listed prefixes "/tmp/" and "/mnt/" makes CleanupMountNamespace
\* return an error without issuing any unmount, standard or lazy.
C3_FailsSafety(mp) ==
    \/ mp \in {<<>>, <<"/">>, <<"/", "d", "e", "v">>,
               <<"/", "p", "r", "o", "c">>, <<"/", "s", "y", "s">>}
    \/ ~ \/ (Len(mp) >= 5 /\ SubSeq(mp, 1, 5) = <<"/", "t", "m", "p", "/">>)
         \/ (Len(mp) >= 5 /\ SubSeq(mp, 1, 5) = <<"/", "m", "n", "t", "/">>)

C3_RejectsWithoutUnmount ==
    (last.op = "cleanup" /\ C3_FailsSafety(last.mp))
        => (last.err /\ umounts = <<>>)

\* C3 also as a step property: the rejected call leaves the mount table as it was.
C3_RejectedLeavesTable ==
    [][(last'.op = "cleanup" /\ C3_FailsSafety(last'.mp)) => mounts' = mounts]_vars

\* A rejected call made while namespace mounts of a mount point are live.
C3_Witness ==
    /\ last.op = "cleanup"
    /\ last.mp = S_root
    /\ last.err
    /\ isMounted(mounts, MP_a \o S_proc)

\* C4: backupAndSetupResolvConf on a mount point without backup slots,
\* followed by restoreResolvConf, with no write in between and no failing
\* system call, leaves the guest's resolv.conf as
\* it was: the same bytes for a file (empty content included), the same
\* target for a symlink, absent if it was absent.
C4_RoundTrip ==
    (call.phase = "restored" /\ ~call.recorded /\ ~call.edited /\ ~call.ioFailed)
        => files.guest = call.orig

\* C5: once a call of backupAndSetupResolvConf has recorded the original in
\* a backup slot, no later call writes to the content-backup slot or to the
\* symlink-backup slot.
C5_BackupWrittenOnce ==
    (call.phase = "setup" /\ call.recorded) => ~call.slotWritten

\* The nameserver strings that are IP literals, by inspection.
C6_IPLiterals == { <<"1", ".", "2", ".", "3", ".", "4">> }

C6_HasNonIP(ns) == \E i \in 1..Len(ns) : ns[i] \notin C6_IPLiterals

\* C6: a nameserver list with a string that is not an IP literal makes
\* backupAndSetupResolvConf return an error, and the call neither creates,
\* deletes nor modifies the guest's resolv.conf (nor the file it links to).
C6_InvalidNameserverWritesNothing ==
    (call.phase = "setup" /\ ~call.edited /\ C6_HasNonIP(call.ns))
        => /\ call.dnsErr
           /\ files.guest = call.orig
           /\ files.dest = call.origDest

\* A rejected list whose first entry is valid, on a guest with a resolv.conf.
C6_Witness ==
    /\ call.phase = "setup"
    /\ ~call.edited
    /\ call.ns = <<V_1234, X_256>>
    /\ call.dnsErr
    /\ ~call.ioFailed
    /\ call.orig = File(<<"o">>)
    /\ files.guest = File(<<"o">>)

\* C7: in an Execute call that starts the guest command, restoreResolvConf
\* has not run while the command is running, and has run exactly once when
\* Execute returns, whatever the command's result and the DNS setup's.
C7_RestoreOnceAfterCommand ==
    /\ pc \in {"dns", "cmd", "defer"} => call.restores = 0
    /\ pc = "ret" => (call.started /\ call.restores = 1)
    /\ (last.op = "execute" /\ last.started) => last.restores = 1

\* Execute has returned the error of a command that could not be started,
\* after a DNS setup that failed, and the restore has run.
C7_Witness ==
    /\ pc = "ret"
    /\ call.result = "notstarted"
    /\ call.dnsErr
    /\ call.restores = 1

C7_WitnessReturned ==
    /\ last.op = "execute"
    /\ last.started
    /\ last.err
    /\ last.restores = 1

C_RecordOfA == <<"a", ".", "m", "o", "u", "n", "t", ".", "n", "b", "d">>

\* C1: when MountWithPartition fails at a step after the image was connected
\* to a device slot, that slot is free again, nothing is mounted at the mount
\* point, no association record exists, and the directory the call created
\* is removed.
C1_MountAllOrNothing ==
    (mlast.op = "mount" /\ mlast.ret = "err" /\ mlast.slot # -1 /\ mlast.fresh) =>
        /\ pidFiles[mlast.slot].kind = "absent"
        /\ ~isMounted(mounts, MP_a)
        /\ ~records[C_RecordOfA].exists
        /\ mlast.created => ~mpDir

\* C2: Unmount on a mount point that has no association record returns a
\* MetadataMismatch error, not success.
C2_UnmountWithoutRecordFails ==
    (mlast.op = "unmount" /\ mlast.hadDir /\ ~mlast.hadRecord) =>
        mlast.ret = "mismatch"

\* C10: Unmount removes the mount-point directory only if it is empty after
\* the unmount attempt; a directory that still has entries is left with
\* everything in it untouched.
C10_NonEmptyLeftUntouched ==
    (mlast.op = "unmount" /\ mlast.nonEmpty) =>
        /\ mpDir
        /\ files.guest = mlast.files.guest
        /\ files.dest = mlast.files.dest
        /\ files.etc = mlast.files.etc
        /\ guestTmp = mlast.tmp

\* An Unmount whose umount failed has left the directory, with the guest's
\* files in it, in place.
C10_Witness ==
    /\ mlast.op = "unmount"
    /\ mlast.nonEmpty
    /\ mlast.ret = "ok"
    /\ isMounted(mounts, MP_a)
    /\ files.etc

\* An Unmount that found the directory empty has removed it.
C10_WitnessRemoved ==
    /\ mlast.op = "unmount"
    /\ mlast.hadDir
    /\ ~mlast.nonEmpty
    /\ ~mpDir

\* The device names of the pool, nbd0 first.
C_DevNames ==
    << <<"/", "d", "e", "v", "/", "n", "b", "d", "0">>,
       <<"/", "d", "e", "v", "/", "n", "b", "d", "1">>,
       <<"/", "d", "e", "v", "/", "n", "b", "d", "2">>,
       <<"/", "d", "e", "v", "/", "n", "b", "d", "3">>,
       <<"/", "d", "e", "v", "/", "n", "b", "d", "4">>,
       <<"/", "d", "e", "v", "/", "n", "b", "d", "5">>,
       <<"/", "d", "e", "v", "/", "n", "b", "d", "6">>,
       <<"/", "d", "e", "v", "/", "n", "b", "d", "7">>,
       <<"/", "d", "e", "v", "/", "n", "b", "d", "8">>,
       <<"/", "d", "e", "v", "/", "n", "b", "d", "9">>,
       <<"/", "d", "e", "v", "/", "n", "b", "d", "1", "0">>,
       <<"/", "d", "e", "v", "/", "n", "b", "d", "1", "1">>,
       <<"/", "d", "e", "v", "/", "n", "b", "d", "1", "2">>,
       <<"/", "d", "e", "v", "/", "n", "b", "d", "1", "3">>,
       <<"/", "d", "e", "v", "/", "n", "b", "d", "1", "4">>,
       <<"/", "d", "e", "v", "/", "n", "b", "d", "1", "5">> >>

C_Slot(i) == pidFiles[i]

\* The process a pid file names, by inspection; 0 when it names none.
C_NamedPid(m) ==
    IF m = [kind |-> "data", data |-> <<"7", "\n">>] THEN 7
    ELSE IF m = [kind |-> "data", data |-> <<"9", "\n">>] THEN 9
    ELSE 0

\* The pid files that cannot be read or hold text that is no process id.
C_Unparsable(m) ==
    \/ m.kind = "unreadable"
    \/ m = [kind |-> "data", data |-> <<"7", "x">>]

\* C8: FindFreeNBDDevice never returns a slot whose pid file names a process
\* that exists when the slot is checked, nor a slot whose pid file cannot be
\* read or does not parse as a process id.
C8_NeverReturnsOwnedSlot ==
    (found.valid /\ ~found.err) =>
        /\ \E i \in 0..15 : found.dev = C_DevNames[i + 1]
        /\ \A i \in 0..15 :
              found.dev = C_DevNames[i + 1] =>
                  /\ C_NamedPid(C_Slot(i)) \notin procs
                  /\ ~C_Unparsable(C_Slot(i))

\* The last slot is returned over an unparsable, an unreadable and an owned one.
C8_Witness ==
    /\ found.valid
    /\ found.dev = C_DevNames[16]
    /\ C_Slot(0) = [kind |-> "data", data |-> <<"7", "x">>]
    /\ C_Slot(7) = [kind |-> "unreadable", data |-> <<>>]
    /\ C_Slot(8) = [kind |-> "data", data |-> <<"7", "\n">>]
    /\ 7 \in procs

\* A slot is free when it has no pid file, when the pid file is empty, or
\* when the process it names no longer exists.
C9_Free(i) ==
    \/ C_Slot(i).kind = "absent"
    \/ C_Slot(i) \in {[kind |-> "data", data |-> <<>>],
                      [kind |-> "data", data |-> <<"\n">>]}
    \/ (C_NamedPid(C_Slot(i)) # 0 /\ C_NamedPid(C_Slot(i)) \notin procs)

\* C9: FindFreeNBDDevice returns the free slot of lowest index among nbd0 ..
\* nbd15, and fails exactly when none of the 16 slots is free.
C9_LowestFreeOrExhausted ==
    found.valid =>
        IF \E i \in 0..15 : C9_Free(i)
        THEN /\ ~found.err
             /\ \E i \in 0..15 :
                  /\ C9_Free(i)
                  /\ \A j \in 0..(i - 1) : ~C9_Free(j)
                  /\ found.dev = C_DevNames[i + 1]
        ELSE found.err

\* Only the last slot is free, through a stale pid file, and it is returned.
C9_Witness ==
    /\ found.valid
    /\ ~found.err
    /\ found.dev = C_DevNames[16]
    /\ C_Slot(15) = [kind |-> "data", data |-> <<"9", "\n">>]
    /\ \A j \in 0..14 : ~C9_Free(j)

\* All 16 slots are held: the pool is exhausted.
C9_WitnessExhausted ==
    /\ found.valid
    /\ found.err
    /\ \A j \in 0..15 : ~C9_Free(j)

\* C11: every umount that CleanupMountNamespace issues names a path that has
\* the slash-terminated mount point of the call as a prefix, and the host's
\* own /proc, /sys, /dev and /tmp stay in the mount table whatever the calls.
C11_UnderMountPoint(path, mp) ==
    LET dir == IF Len(mp) > 0 /\ mp[Len(mp)] = "/" THEN mp ELSE mp \o <<"/">>
    IN /\ Len(path) > Len(dir)
       /\ SubSeq(path, 1, Len(dir)) = dir

C11_HostPaths ==
    { <<"/", "p", "r", "o", "c">>, <<"/", "s", "y", "s">>,
      <<"/", "d", "e", "v">>, <<"/", "t", "m", "p">> }

C11_UnmountsOnlyUnderMountPoint ==
    /\ last.op = "cleanup" =>
          \A k \in 1..Len(umounts) :
              /\ C11_UnderMountPoint(umounts[k].target, last.mp)
              /\ umounts[k].target \notin C11_HostPaths
    /\ \A h \in C11_HostPaths : \E i \in 1..Len(mounts) : mounts[i].target = h

\* A cleanup that passed validation and issued umount commands.
C11_Witness ==
    /\ last.op = "cleanup"
    /\ ~last.err
    /\ Len(umounts) >= Len(MountNamespaces)
    /\ \E k \in 1..Len(umounts) : umounts[k].lazy

\* C12: the image is connected to at most one device slot; a Mount of the
\* image that succeeds while the image is already mounted (its metadata file
\* exists) leaves no second slot connected.
C12_ConnectedSlots == { i \in 0..15 : (100 + i) \in procs }

C12_AtMostOneSlot ==
    (mlast.op = "mount" /\ mlast.ret = "ok" /\ mlast.hadRecord)
        => Cardinality(C12_ConnectedSlots) <= 1

\* C13: an exec on an image without a mount record that got as far as the
\* guest command leaves the image unmounted: nothing is mounted on the mount
\* point, the slot it used is disconnected, the metadata file is gone and the
\* mount-point directory is removed.
C13_TemporaryMountUndone ==
    (mlast.op = "exec" /\ mlast.temp)
        => /\ \A i \in 1..Len(mounts) :
                 ~HasPrefix(mounts[i].target, MP_a)
           /\ (100 + mlast.slot) \notin procs
           /\ ~records[RecordName(MP_a)].exists
           /\ ~mpDir

\* C13, second half: an exec whose target has a mount record leaves the
\* image's mount, slot, metadata file and directory as they were.
C13_RecordedMountKept ==
    [][(mlast'.op = "exec" /\ ~mlast'.temp /\ mlast'.ret # "mountErr")
          => /\ isMounted(mounts', MP_a) = isMounted(mounts, MP_a)
             /\ procs' = procs
             /\ records' = records
             /\ mpDir' = mpDir]_vars

\* What the claims about GetPartitionDevice speak of: the partition lines of
\* the listing, their device nodes, the root-like types and their order of
\* preference.
C_PartLines == { i \in 2..Len(disk) : TRUE }

C_Node(i) == <<"/", "d", "e", "v", "/">> \o disk[i].name

C_Rank(fstype) ==
    CASE fstype = "ext4" -> 1 [] fstype = "ext3" -> 2 [] fstype = "ext2" -> 3
      [] fstype = "xfs" -> 4 [] fstype = "btrfs" -> 5 [] fstype = "f2fs" -> 6
      [] OTHER -> 0

C_RootLines == { i \in C_PartLines : C_Rank(disk[i].fstype) > 0 }

C_AutoDetected == picked.num = 0 /\ ~picked.lsblkFails

\* C14: two or more root-like partitions of one type whose sizes are all
\* known: auto-detection returns a root-like partition that no other one
\* exceeds in size.
C14_SameTypeSized ==
    /\ C_AutoDetected
    /\ ~picked.sizeFails
    /\ Cardinality(C_RootLines) >= 2
    /\ \A i, j \in C_RootLines : disk[i].fstype = disk[j].fstype
    /\ \A i \in C_RootLines : disk[i].sized

C15_OneRootLike ==
    /\ C_AutoDetected
    /\ Cardinality(C_RootLines) = 1

C16_Reordered ==
    { <<disk[1]>> \o [i \in 1..(Len(disk) - 1) |-> disk[f[i] + 1]] :
        f \in { g \in [1..(Len(disk) - 1) -> 1..(Len(disk) - 1)] :
                  \A i, j \in DOMAIN g : i # j => g[i] # g[j] } }

C16_OrderIndependent ==
    picked.num >= 0 =>
        \A lines \in C16_Reordered :
            LET r == GetPartitionDevice(NbdPath(0), picked.num, lines,
                                        picked.lsblkFails, TRUE, picked.sizeFails)
            IN r.err = picked.ret.err /\ r.dev = picked.ret.dev

\* C17: two or more root-like partitions of one type of which some size is
\* not known: auto-detection fails, returns no device and names every
\* candidate.
C17_SameTypeUnsized ==
    /\ C_AutoDetected
    /\ Cardinality(C_RootLines) >= 2
    /\ \A i, j \in C_RootLines : disk[i].fstype = disk[j].fstype
    /\ (picked.sizeFails \/ \E i \in C_RootLines : ~disk[i].sized)

C17_AmbiguousWithoutSizes ==
    C17_SameTypeUnsized =>
        /\ picked.ret.err = "ambiguous"
        /\ picked.ret.dev = <<>>
        /\ \A i \in C_RootLines :
              \E k \in 1..Len(picked.ret.named) :
                  <<"/", "d", "e", "v", "/", "n", "b", "d", "0", "p">>
                      \o Itoa(picked.ret.named[k][1]) = C_Node(i)

\* C18: root-like partitions of differing types: auto-detection returns a
\* root-like partition whose type no other root-like type present precedes
\* in the order ext4, ext3, ext2, xfs, btrfs, f2fs.
C18_DifferingTypes ==
    /\ C_AutoDetected
    /\ \E i, j \in C_RootLines : disk[i].fstype # disk[j].fstype

C19_BareDeviceWithFS ==
    /\ picked.num = 0
    /\ C_PartLines = {}
    /\ disk[1].fstype # ""

C19_ReturnsBaseDevice ==
    C19_BareDeviceWithFS =>
        /\ picked.ret.err = "none"
        /\ picked.ret.dev = <<"/", "d", "e", "v", "/", "n", "b", "d", "0">>

C19_Witness ==
    /\ C19_BareDeviceWithFS
    /\ ~picked.lsblkFails
    /\ picked.ret.dev = <<"/", "d", "e", "v", "/", "n", "b", "d", "0">>

\* C20: a call with a partition number returns the node of that partition
\* if the node exists and fails with NotFound otherwise.
C20_Requested ==
    <<"/", "d", "e", "v", "/", "n", "b", "d", "0", "p">> \o Itoa(picked.num)

C20_ExactlyTheRequested ==
    picked.num > 0 =>
        IF \E i \in C_PartLines : C_Node(i) = C20_Requested
        THEN picked.ret.err = "none" /\ picked.ret.dev = C20_Requested
        ELSE picked.ret.err = "notfound" /\ picked.ret.dev = <<>>

\* The partition asked for is a swap partition listed after an ext4 one, and
\* it is the one returned.
C20_Witness ==
    /\ picked.num = 3
    /\ Len(disk) = 4
    /\ disk[2].fstype = "ext4" /\ disk[4].fstype = "swap"
    /\ C_Node(4) = C20_Requested
    /\ picked.ret.dev = C20_Requested

\* Partition 2 is asked for on a device that has none.
C20_WitnessNotFound ==
    /\ picked.num = 2
    /\ Len(disk) = 3
    /\ picked.ret.err = "notfound"

\* C21: a command started while the nbd module cannot be loaded, or qemu-nbd
\* or partprobe is not found, ends with the dependency error and changes
\* neither the mount table nor the slots, the metadata files, the mount-point
\* directory, the guest's files or the stored records; the error names a
\* dependency that is missing.
C21_Missing(env, dep) ==
    CASE dep = "nbd module" ->
           \/ ~env.readable
           \/ (env.data # <<"l", "o", "o", "p", " ", "1", "\n",
                            "n", "b", "d", " ", "1", "\n">> /\ ~env.modprobe)
      [] dep = "qemu-nbd" -> ~env.qemuNbd
      [] dep = "partprobe" -> ~env.partprobe
      [] OTHER -> FALSE

C21_NamesTheMissing ==
    mlast.dep # "none" => (mlast.ret = "depErr" /\ C21_Missing(mlast.env, mlast.dep))

C22_SetupOrder == <<S_proc, S_sys, S_dev, S_tmp>>

C22_Rank(target) ==
    CHOOSE i \in 1..Len(C22_SetupOrder) : HasSuffix(target, C22_SetupOrder[i])

C22_Ascending(tbl) ==
    \A i, j \in 1..Len(tbl) :
        i < j => C22_Rank(tbl[i].target) < C22_Rank(tbl[j].target)

C22_Descending(log) ==
    \A i, j \in 1..Len(log) :
        i < j => \/ C22_Rank(log[i].target) > C22_Rank(log[j].target)
                 \/ (j = i + 1 /\ log[i].target = log[j].target
                                /\ ~log[i].lazy /\ log[j].lazy)

C22_TeardownReversesSetup ==
    [][/\ last'.op = "setup" =>
            /\ Len(mounts') >= Len(mounts)
            /\ SubSeq(mounts', 1, Len(mounts)) = mounts
            /\ C22_Ascending(SubSeq(mounts', Len(mounts) + 1, Len(mounts')))
       /\ last'.op = "cleanup" => C22_Descending(umounts')]_vars

\* A teardown that unmounted all four entries of a mount point.
C22_Witness ==
    /\ last.op = "cleanup"
    /\ [i \in 1..Len(umounts) |-> umounts[i].target]
         = << MP_a \o S_tmp, MP_a \o S_dev, MP_a \o S_sys, MP_a \o S_proc >>

\* C23: a CleanupMountNamespace call that passes the safety checks returns
\* without error and attempts every entry of the set: an entry that is not
\* mounted gets no umount, a mounted one gets the standard umount, a lazy
\* umount is only ever issued right after the standard umount of the same
\* target, and an entry that stays mounted (both umounts failed) got both
\* and did not keep the other entries from being attempted.
C23_Target(mp, i) ==
    SlashTerminated(mp) \o TrimPrefix(MountNamespaces[i].target, S_slash)

C23_MountsOn(tbl, path) ==
    Cardinality({k \in 1..Len(tbl) : tbl[k].target = path})

C23_AttemptsEveryEntry ==
    [][(last'.op = "cleanup" /\ ~SafetyRejected(last'.mp)) =>
          /\ ~last'.err
          /\ \A i \in 1..Len(MountNamespaces) :
                LET t == C23_Target(last'.mp, i)
                    at == {k \in 1..Len(umounts') : umounts'[k].target = t}
                IN /\ ~isMounted(mounts, t) => at = {}
                   /\ isMounted(mounts, t) =>
                         \E k \in at : ~umounts'[k].lazy
                   /\ (isMounted(mounts, t)
                         /\ C23_MountsOn(mounts', t) = C23_MountsOn(mounts, t)) =>
                         \E k \in at : /\ ~umounts'[k].lazy
                                       /\ k + 1 \in at
                                       /\ umounts'[k + 1].lazy
          /\ \A k \in 1..Len(umounts') :
                umounts'[k].lazy =>
                    /\ k > 1
                    /\ umounts'[k - 1] = [target |-> umounts'[k].target,
                                          lazy |-> FALSE]]_vars

\* Both umounts of /tmp under the mount point failed, /dev was not mounted,
\* and the teardown still went on to /sys and /proc.
C23_Witness ==
    /\ last.op = "cleanup"
    /\ ~last.err
    /\ last.mp = MP_a
    /\ isMounted(mounts, MP_a \o S_tmp)
    /\ ~isMounted(mounts, MP_a \o S_proc)
    /\ [k \in 1..Len(umounts) |-> umounts[k].target]
         = << MP_a \o S_tmp, MP_a \o S_tmp, MP_a \o S_sys, MP_a \o S_proc >>

\* C24: once os.Stat finds the mount point, Execute runs the guest command
\* whatever the setup steps did: the call reaches its deferred restore and
\* its return only after chroot was run, also when no namespace entry was
\* mounted and when the resolv.conf setup failed or rejected the nameservers.
C24_CommandAlwaysStarted ==
    /\ pc \in {"defer", "ret"} => call.started
    /\ (last.op = "execute" /\ last.stat) => last.started

\* The command has just been run although the first entry's directory could
\* not be created, no namespace mount succeeded and the nameserver list was
\* rejected.
C24_Witness ==
    /\ pc = "defer"
    /\ call.started
    /\ call.dnsErr
    /\ call.ns = <<X_256>>
    /\ \A i \in 1..Len(MountNamespaces) :
          ~isMounted(mounts, MP_a \o MountNamespaces[i].target)

\* The same with a write failure of the resolv.conf setup.
C24_WitnessWriteFailed ==
    /\ pc = "defer"
    /\ call.started
    /\ call.dnsErr
    /\ call.ioFailed
    /\ call.ns = <<>>

\* C25: the mount-point directory has entries only while the image's
\* filesystem is mounted on it; no operation makes files or directories in
\* the host's directory of a mount point that has no filesystem mounted.
C25_EntriesOnlyWhileMounted ==
    (mpDir /\ ReadDir(World, MP_a) # {}) => isMounted(mounts, MP_a)

\* C26: the teardown of a temporary exec runs in the order restore of the
\* guest's resolv.conf, namespace teardown, unmount of the image filesystem,
\* disconnect of the device slot, removal of the mount-point directory; each
\* of these effects happens in its own step and never before an earlier one.
C26_Order ==
    <<"restore", "namespace", "backupFiles", "umount", "disconnect",
      "backupFiles2", "rmdir">>

C26_LastStep(l) == IF l.done = <<>> THEN "none" ELSE l.done[Len(l.done)]

C26_NsMounts(tbl) ==
    {i \in 1..Len(tbl) : HasPrefix(tbl[i].target, MP_a \o S_slash)}

C26_TeardownInOrder ==
    [][(last'.op = "temp" /\ last'.done # <<>>) =>
          /\ last'.done = SubSeq(C26_Order, 1, Len(last'.done))
          /\ files'.guest # files.guest => C26_LastStep(last') = "restore"
          /\ Cardinality(C26_NsMounts(mounts')) < Cardinality(C26_NsMounts(mounts))
                => C26_LastStep(last') = "namespace"
          /\ (isMounted(mounts, MP_a) /\ ~isMounted(mounts', MP_a))
                => C26_LastStep(last') = "umount"
          /\ procs' # procs => C26_LastStep(last') = "disconnect"
          /\ (mpDir /\ ~mpDir') => C26_LastStep(last') = "rmdir"]_vars

\* A teardown that went through every step and undid everything.
C26_Witness ==
    /\ last.op = "temp"
    /\ last.done = C26_Order
    /\ pc = "idle"
    /\ ~mpDir
    /\ procs = {}
    /\ mounts = HostMounts
    /\ files.guest = File(<<"o">>)

\* C27: a backupAndSetupResolvConf call whose nameserver list is rejected
\* writes no file: not the guest's resolv.conf, not the content-backup slot
\* and not the symlink-backup slot.
C27_RejectedWritesNoFile ==
    (call.phase = "setup" /\ ~call.edited /\ C6_HasNonIP(call.ns))
        => /\ call.dnsErr
           /\ files.guest = call.orig
           /\ ~call.slotWritten

\* C28: a successful backupAndSetupResolvConf call that found something at the
\* guest's resolv.conf path (a file, a symlink to an existing file or a
\* dangling symlink) leaves a regular file there, and has not written through
\* the symlink: the link's destination is as it was.
C28_ReplacedNotWrittenThrough ==
    (call.phase = "setup" /\ ~call.edited /\ ~call.dnsErr
        /\ call.orig.kind # "absent")
        => /\ files.guest.kind = "file"
           /\ files.dest = call.origDest

\* C29: a restoreResolvConf call without a failing system call is decided by
\* the two backup slots: a non-empty symlink-backup slot makes the guest's
\* resolv.conf the recorded symlink, whatever the content-backup slot holds;
\* otherwise a missing or zero-byte content-backup slot makes it absent;
\* otherwise the recorded bytes are written to the path unchanged. The slots
\* themselves are left as they are.
C29_RestoreBySlots ==
    [][(call.phase = "setup" /\ call'.phase = "restored" /\ ~call'.ioFailed) =>
          /\ files'.backup = files.backup
          /\ files'.sym = files.sym
          /\ IF files.sym.exists /\ Len(files.sym.data) > 0
               THEN files'.guest = Symlink(files.sym.data)
             ELSE IF ~files.backup.exists \/ Len(files.backup.data) = 0
               THEN files'.guest = Absent
             ELSE IF files.guest.kind = "symlink"
               THEN files'.guest = files.guest
                    /\ files'.dest = Slot(files.backup.data)
             ELSE files'.guest = File(files.backup.data)]_vars

\* A restore from a non-empty symlink-backup slot while the content-backup
\* slot exists too, over a file the guest command had written.
C29_Witness ==
    /\ call.phase = "restored"
    /\ ~call.ioFailed
    /\ call.edited
    /\ files.sym.exists
    /\ files.backup.exists
    /\ files.guest = Symlink(files.sym.data)

\* A restore of recorded bytes over a file the guest command had written.
C29_WitnessBytes ==
    /\ call.phase = "restored"
    /\ ~call.ioFailed
    /\ call.edited
    /\ ~files.sym.exists
    /\ files.backup = Slot(<<"o">>)
    /\ files.guest = File(<<"o">>)

\* C30 as stated: the mount table gains a record only in a mount command
\* whose Mount and AddMount succeeded, and loses one only in an unmount
\* command whose Unmount returned without error; a mount command whose Mount
\* failed stores nothing, one whose AddMount failed stores nothing and has run
\* Unmount (the metadata file is gone), and an unmount command whose Unmount
\* failed keeps the record.
C30_Commands ==
    /\ (mlast'.op = "mountCmd" /\ mlast'.ret # "ok") => store' = store
    /\ (mlast'.op = "mountCmd" /\ mlast'.ret = "addErr") =>
           ~records'[RecordName(MP_a)].exists
    /\ (mlast'.op = "unmountCmd" /\ mlast'.ret # "ok") => store' = store
    /\ (store' \ store # {}) => (mlast'.op = "mountCmd" /\ mlast'.ret = "ok")

C30_RecordOnlyBetweenMountAndUnmount ==
    [][/\ C30_Commands
       /\ (store \ store' # {}) =>
              (mlast'.op = "unmountCmd" /\ mlast'.ret = "ok")]_vars

\* C30, amended: as above, but a record is also lost when the cleanup
\* command finds it stale: its mount point does not exist, its metadata file
\* does not exist or nothing is mounted on its mount point.
C30_RecordLostByUnmountOrCleanup ==
    [][/\ C30_Commands
       /\ (store \ store' # {}) =>
              \/ mlast'.op = "unmountCmd" /\ mlast'.ret = "ok"
              \/ /\ mlast'.op = "cleanupCmd"
                 /\ ~(mpDir /\ records[RecordName(MP_a)].exists
                             /\ isMounted(mounts, MP_a))]_vars

\* An unmount command has just failed and the record is still stored.
C30_Witness ==
    /\ mlast.op = "unmountCmd"
    /\ mlast.ret = "removeErr"
    /\ store = {S_imgA}

\* A mount command whose AddMount failed: nothing stored, the mount undone.
C30_WitnessAddFailed ==
    /\ mlast.op = "mountCmd"
    /\ mlast.ret = "addErr"
    /\ store = {}
    /\ ~isMounted(mounts, MP_a)

(***************************************************************************)
(* Two Mount invocations side by side                                      *)
(***************************************************************************)
\* mountQemuImage as far as its FindFreeNBDDevice call, with a slot
\* reservation that the code does not have: the slot found is marked at once.
RaceFindReserving(p) ==
    /\ inv[p].pc = "idle"
    /\ \E d \in {FindFreeNBDDevice(pidFiles, procs)} :
          /\ inv' = [inv EXCEPT ![p] =
                        IF d.err THEN [pc |-> "failed", dev |-> <<>>]
                        ELSE [pc |-> "found", dev |-> d.dev]]
          /\ pidFiles' = IF d.err THEN pidFiles
                         ELSE [pidFiles EXCEPT ![SlotOf(d.dev)] = Marker(S_pid7)]
    /\ UNCHANGED <<mounts, umounts, last, execVars, procs, found, mountVars,
                   partVars, table>>

\* Invocation p runs mountQemuImage as far as its FindFreeNBDDevice call:
\* the scan reads the pid files and changes nothing.
RaceFind(p) ==
    /\ inv[p].pc = "idle"
    /\ \E d \in {FindFreeNBDDevice(pidFiles, procs)} :
          inv' = [inv EXCEPT ![p] =
                     IF d.err THEN [pc |-> "failed", dev |-> <<>>]
                     ELSE [pc |-> "found", dev |-> d.dev]]
    /\ UNCHANGED <<mounts, umounts, last, execVars, nbdVars, mountVars,
                   partVars, table>>

\* Invocation p goes on to ConnectImage with the slot it found. qemu-nbd may
\* fail; then mountQemuImage calls disconnectNBD with the device path and
\* returns the error.
RaceConnect(p) ==
    /\ inv[p].pc = "found"
    /\ \E ok \in BOOLEAN :
       \E w \in {IF ok THEN ConnectImage(World, SlotOf(inv[p].dev))
                 ELSE disconnectNBD(World, inv[p].dev).w} :
          /\ pidFiles' = w.pidFiles
          /\ procs' = w.procs
          /\ inv' = [inv EXCEPT ![p].pc = IF ok THEN "connected" ELSE "failed"]
    /\ UNCHANGED <<mounts, umounts, last, execVars, found, mountVars, partVars, table>>

NextRace == \E p \in Invocations : RaceFind(p) \/ RaceConnect(p)

SpecRace == InitSpecNbd /\ [][NextRace]_vars

\* C31: two Mount invocations that have both come back from
\* FindFreeNBDDevice, neither having connected yet, hold the same slot:
\* nothing between the scan and the connect keeps the second invocation from
\* the slot the first one found.
C31_BothObtainTheSameSlot ==
    \A p, q \in Invocations :
        inv[p].pc = "found" /\ inv[q].pc = "found" => inv[p].dev = inv[q].dev

\* Both invocations have tried to connect their image to the same slot: one
\* is connected to it, the other has connected to it or has failed to.
C31_Witness ==
    /\ inv[1].pc = "connected"
    /\ inv[2].pc \in {"connected", "failed"}
    /\ inv[1].dev = inv[2].dev
    /\ inv[1].dev # <<>>

(***************************************************************************)
(* Mount and Unmount of images whose files have the same base name         *)
(***************************************************************************)
\* The ways a Mount fails here: not at all, or at the mount(8) call.
PairFails == {"none", "mount"}

PairMount ==
    /\ Len(mounts) < MaxMounts
    /\ Cardinality(procs) <= MaxConnected
    /\ \E imagePath \in MountImages, fail \in PairFails :
          MountCall(imagePath, fail, "ok")

PairUnmount ==
    \E o \in {"ok", "fail"} :
        /\ o = "fail" => isMounted(mounts, MP_a)
        /\ UnmountOf(o)

NextPair == PairMount \/ PairUnmount

SpecPair == InitSpecNs /\ [][NextPair]_vars

\* C32: a Mount that begins while the metadata file of an earlier mount
\* exists and that mount's filesystem is still mounted leaves the metadata
\* file with the bytes it had, whichever image it is called with.
C32_EarlierRecordKept ==
    [][(/\ mlast'.op = "mount"
        /\ records[RecordName(MP_a)].exists
        /\ isMounted(mounts, MP_a))
          => records'[RecordName(MP_a)] = records[RecordName(MP_a)]]_vars

\* C33: an Unmount that finds one filesystem mounted on the mount point and
\* leaves it mounted (umount failed although the filesystem was mounted)
\* keeps the metadata file and leaves every connected slot connected.
C33_Layers(tbl) == {i \in 1..Len(tbl) : tbl[i].target = MP_a}

C33_FailedUmountKeepsDevice ==
    [][(/\ mlast'.op = "unmount"
        /\ Cardinality(C33_Layers(mounts)) = 1
        /\ isMounted(mounts', MP_a))
          => /\ records' = records
             /\ procs' = procs]_vars

(***************************************************************************)
(* Two exec invocations on one mounted image, side by side: each runs      *)
(* Execute (setup, guest command, deferred restore) and then the cleanup   *)
(* closure of the exec command                                             *)
(***************************************************************************)
\* Where an invocation goes after each of its steps.
OverlapNext(step) ==
    CASE step = "idle" -> "cmd"
      [] step = "cmd" -> "defer"
      [] step = "defer" -> "namespace"
      [] step = "namespace" -> "backupFiles"
      [] step = "backupFiles" -> "done"
      [] OTHER -> "done"

Advance(p) == inv' = [inv EXCEPT ![p].pc = OverlapNext(@)]

\* Some invocation has started and not finished.
Running == \E q \in Invocations : inv[q].pc \notin {"idle", "done"}

\* Execute, lines 40-59: os.Stat, setupMountNamespace and
\* backupAndSetupResolvConf. What is remembered: the guest's resolv.conf
\* before the first invocation started, and whether two have overlapped.
OverlapSetup(p) ==
    /\ inv[p].pc = "idle"
    /\ \E ns \in ExecNsLists :
          files' = Files(backupAndSetupResolvConf(files, hostResolv, ns, "none"))
    /\ mounts' = setupMountNamespace(MP_a, mounts, AllEntries("ok"))
    /\ last' = IF last.op = "none"
               THEN [op |-> "overlap", orig |-> files.guest, dest |-> files.dest,
                     overlapped |-> FALSE]
               ELSE [last EXCEPT !.overlapped = @ \/ Running]
    /\ Advance(p)
    /\ UNCHANGED <<umounts, hostResolv, pc, call, rounds>>
    /\ UNCHANGED <<nbdVars, mountVars, partVars, table>>

\* Execute, lines 67-87: the guest command, which leaves resolv.conf alone.
OverlapCommand(p) ==
    /\ inv[p].pc = "cmd"
    /\ Advance(p)
    /\ UNCHANGED <<mounts, umounts, last, execVars, nbdVars, mountVars, partVars, table>>

\* Execute's deferred restoreResolvConf.
OverlapRestore(p) ==
    /\ inv[p].pc = "defer"
    /\ files' = Files(restoreResolvConf(files, "none"))
    /\ Advance(p)
    /\ UNCHANGED <<mounts, umounts, last, hostResolv, pc, call, rounds>>
    /\ UNCHANGED <<nbdVars, mountVars, partVars, table>>

\* The cleanup closure: CleanupMountNamespace.
OverlapNamespace(p) ==
    /\ inv[p].pc = "namespace"
    /\ \E r \in {CleanupMountNamespace(MP_a, mounts, AllEntries("ok"))} :
          /\ mounts' = r.mounts
          /\ umounts' = r.log
    /\ Advance(p)
    /\ UNCHANGED <<last, execVars, nbdVars, mountVars, partVars, table>>

\* The cleanup closure: CleanupBackupFiles.
OverlapBackupFiles(p) ==
    /\ inv[p].pc = "backupFiles"
    /\ files' = CleanupBackupFiles(files)
    /\ Advance(p)
    /\ UNCHANGED <<mounts, umounts, last, hostResolv, pc, call, rounds>>
    /\ UNCHANGED <<nbdVars, mountVars, partVars, table>>

NextOverlap ==
    \E p \in Invocations :
        \/ OverlapSetup(p)
        \/ OverlapCommand(p)
        \/ OverlapRestore(p)
        \/ OverlapNamespace(p)
        \/ OverlapBackupFiles(p)

SpecOverlap == Init /\ [][NextOverlap]_vars

\* C34: when two exec invocations that overlapped in time have both
\* finished, a guest's resolv.conf that was a non-empty regular file before
\* the first one started (the case in which one invocation alone restores
\* it) is that file again, with the same bytes.
C34_BothDone == \A p \in Invocations : inv[p].pc = "done"

C34_OriginalBackAfterBoth ==
    (/\ C34_BothDone
     /\ last.op = "overlap"
     /\ last.overlapped
     /\ last.orig.kind = "file"
     /\ Len(last.orig.data) > 0)
        => /\ files.guest = last.orig
           /\ files.dest = last.dest

\* C35: a restore that follows a backupAndSetupResolvConf which returned an
\* error, found no backup slot, wrote none and left the guest's resolv.conf
\* as it was, leaves the guest's resolv.conf as it is.
C35_NoBackupNoRemoval ==
    [][(/\ call.phase = "setup"
        /\ call'.phase = "restored"
        /\ call.dnsErr
        /\ ~call.recorded
        /\ ~call.slotWritten
        /\ ~call.edited
        /\ files.guest = call.orig
        /\ ~files.backup.exists
        /\ ~files.sym.exists)
          => files'.guest = files.guest]_vars

\* C36: between the calls of Mount and Unmount, the slots that a qemu-nbd of
\* this tool serves are exactly the slots that the existing metadata files
\* name, and a mount point with a metadata file has a filesystem mounted on
\* it.
C36_Connected == {i \in SlotIds : QemuPid(i) \in procs}

C36_Recorded ==
    {SlotOf(TrimSpace(records[n].data)) : n \in {k \in DOMAIN records : records[k].exists}}

C36_SlotsMatchRecords ==
    /\ C36_Connected = C36_Recorded
    /\ records[RecordName(MP_a)].exists => isMounted(mounts, MP_a)

\* C37: when the exec command reports after an Execute that returned an
\* error, it reports failure.
C37_ErrorIsReported ==
    (last.op = "report" /\ last.err) => last.status = "failure"

(***************************************************************************)
(* The mount point MountWithPartition returns for an image path, and the   *)
(* safety checks of CleanupMountNamespace on it                            *)
(***************************************************************************)
\* File names an image may have, among them the names of the directories
\* the safety checks know.
PathNames ==
    {S_dev, S_proc, S_sys, S_tmp, S_mnt, <<"/", "a">>, <<"/", "a", ".", "n", "b", "d">>,
     <<"/", "q", "i", "m", "i">>, <<"/", ".", "m", "o", "u", "n", "t">>}

\* The absolute, clean paths of image files: a name in the root directory
\* or in a directory of the root directory.
ImagePaths == PathNames \cup {d \o n : d \in PathNames, n \in PathNames}

InitPath ==
    /\ mounts = HostMounts
    /\ umounts = <<>>
    /\ \E path \in ImagePaths :
          /\ last = [op |-> "image", path |-> path]
          /\ records = [n \in {RecordName(MountPointOf(path))} |-> NoSlot]
    /\ inv = [p \in Invocations |-> NotStarted]
    /\ table = EmptyTable
    /\ mpDir = FALSE
    /\ guestTmp = TRUE
    /\ hostEntries = FALSE
    /\ mlast = NoOp
    /\ store = {}
    /\ InitExecIdle
    /\ InitNbdIdle
    /\ InitPartIdle

\* MountWithPartition on the image: it fails, or it mounts the image and
\* returns the mount point.
PathMount ==
    /\ last.op = "image"
    /\ \E fail \in {"none", "stat", "connect"} :
       \E r \in {MountWithPartition(World, last.path, fail, "ok")} :
          /\ SetWorld(r.w)
          /\ last' = IF r.ret = "ok"
                     THEN [op |-> "mounted", path |-> last.path,
                           mountPoint |-> MountPointOf(last.path)]
                     ELSE [op |-> "mountErr", path |-> last.path]
    /\ UNCHANGED <<umounts, hostResolv, pc, call, rounds, found, mlast, store,
                   partVars, table, inv>>

\* An exec on the mount point: Execute's setupMountNamespace.
PathSetup ==
    /\ last.op = "mounted"
    /\ mounts' = setupMountNamespace(last.mountPoint, mounts, AllEntries("ok"))
    /\ last' = [last EXCEPT !.op = "setup"]
    /\ UNCHANGED <<umounts, execVars, nbdVars, mountVars, partVars, table, inv>>

\* The exec's cleanup closure: CleanupMountNamespace on the mount point.
PathTeardown ==
    /\ last.op = "setup"
    /\ \E r \in {CleanupMountNamespace(last.mountPoint, mounts, AllEntries("ok"))} :
          /\ mounts' = r.mounts
          /\ umounts' = r.log
          /\ last' = [op |-> "teardown", path |-> last.path,
                      mountPoint |-> last.mountPoint, err |-> r.err]
    /\ UNCHANGED <<execVars, nbdVars, mountVars, partVars, table, inv>>

NextPath == PathMount \/ PathSetup \/ PathTeardown

SpecPath == InitPath /\ [][NextPath]_vars

\* C38: a mount point that MountWithPartition has returned is not empty, is
\* none of "/", "/dev", "/proc", "/sys", and begins with "/tmp/"; the
\* namespace teardown on it does not return the safety checks' error and
\* takes the namespace mounts below it away.
C38_ReturnedMountPointIsSafe ==
    /\ last.op \in {"mounted", "setup", "teardown"} =>
          /\ last.mountPoint \notin {<<>>, S_slash, S_dev, S_proc, S_sys}
          /\ HasPrefix(last.mountPoint, S_tmp \o S_slash)
    /\ last.op = "teardown" =>
          /\ ~last.err
          /\ ~MountsBelow(mounts, last.mountPoint)

\* The image file is named dev in the directory /proc; it has been mounted
\* and an exec's namespace has been torn down on its mount point.
C38_Witness ==
    /\ last.op = "teardown"
    /\ last.path = S_proc \o S_dev
    /\ ~last.err

(***************************************************************************)
(* Storage: AddMount and RemoveMount on the mount table                    *)
(***************************************************************************)
\* A MountInfo; Name is the empty string when no alias was given.
MountInfo(imagePath, name, readOnly) ==
    [ImagePath |-> imagePath, MountPoint |-> MountPointOf(imagePath),
     Name |-> name, ReadOnly |-> readOnly]

\* The table with the record stored under the key.
Put(tbl, key, info) ==
    [k \in DOMAIN tbl \cup {key} |-> IF k = key THEN info ELSE tbl[k]]

\* delete(s.mounts, key)
Delete(tbl, key) == [k \in DOMAIN tbl \ {key} |-> tbl[k]]

\* AddMount: the table afterwards and whether an error is returned. The
\* table is the one save writes; when save fails the file keeps the old one.
AddMount(tbl, info, saveFails) ==
    IF info.Name # <<>> /\ info.Name \in DOMAIN tbl
    THEN [tbl |-> tbl, err |-> TRUE]
    ELSE IF saveFails THEN [tbl |-> tbl, err |-> TRUE]
    ELSE [tbl |-> Put(tbl, IF info.Name # <<>> THEN info.Name ELSE info.ImagePath,
                      info),
          err |-> FALSE]

\* RemoveMount: by key, else the record (one of them, in map order) whose
\* image path is the argument.
RemoveMount(tbl, nameOrPath, pick) ==
    IF nameOrPath \in DOMAIN tbl
    THEN [tbl |-> Delete(tbl, nameOrPath), err |-> FALSE]
    ELSE IF pick \in DOMAIN tbl /\ tbl[pick].ImagePath = nameOrPath
    THEN [tbl |-> Delete(tbl, pick), err |-> FALSE]
    ELSE [tbl |-> tbl, err |-> TRUE]

\* The aliases given: none, two names, and a name that is an image's path.
Aliases == {<<>>, <<"x">>, <<"y">>, S_imgA}

TableKeys == MountImages \cup Aliases

StoreAdd ==
    /\ \E imagePath \in MountImages, name \in Aliases, readOnly \in BOOLEAN,
          saveFails \in BOOLEAN :
       \E r \in {AddMount(table, MountInfo(imagePath, name, readOnly), saveFails)} :
          /\ table' = r.tbl
          /\ last' = [op |-> "addMount", err |-> r.err,
                      info |-> MountInfo(imagePath, name, readOnly)]
    /\ UNCHANGED <<mounts, umounts, execVars, nbdVars, mountVars, partVars, inv>>

StoreRemove ==
    /\ \E nameOrPath \in TableKeys, pick \in TableKeys :
       \E r \in {RemoveMount(table, nameOrPath, pick)} :
          /\ (\E k \in DOMAIN table : table[k].ImagePath = nameOrPath)
                => (pick \in DOMAIN table /\ table[pick].ImagePath = nameOrPath)
          /\ table' = r.tbl
          /\ last' = [op |-> "removeMount", err |-> r.err]
    /\ UNCHANGED <<mounts, umounts, execVars, nbdVars, mountVars, partVars, inv>>

NextStore == StoreAdd \/ StoreRemove

SpecStore == InitSpecNs /\ [][NextStore]_vars

\* C39: an AddMount that returns an error leaves the table as it was; one
\* that returns nil leaves every record that was in the table under its key,
\* unchanged.
C39_AddKeepsEveryRecord ==
    [][last'.op = "addMount" =>
          IF last'.err THEN table' = table
          ELSE \A k \in DOMAIN table :
                   k \in DOMAIN table' /\ table'[k] = table[k]]_vars

====
